---- MODULE Spec2Model ----
(***************************************************************************)
(* A model of the rlang interpreter: the scope chain (scope.rs), the       *)
(* tree-walking evaluator (interpreter.rs), the value operators            *)
(* (value.rs), the failure report of main (main.rs) and the front end      *)
(* (lexer.rs, parser.rs).                                                  *)
(*                                                                         *)
(* The evaluator is recursive in the source.  Here every open invocation   *)
(* of interpret_body, interpret_stmt, evaluate and call_fn is one record   *)
(* of the control stack ctl, and one action is one step of the source      *)
(* between two calls or returns.  A value handed back by a finished        *)
(* invocation to its caller travels in the register ret.                   *)
(***************************************************************************)
EXTENDS Integers, Sequences, FiniteSets, TLC

\* Bounds of the model.
MaxArgs == 1        \* command-line arguments handed to main: 0..MaxArgs
MaxDepth == 6       \* open user-defined calls (Rust recursion is bounded by the stack)

VARIABLES
    decls,      \* input: the parsed declarations handed to Interpreter::interpret
    cmd_args,   \* input: the process's trailing arguments (as Value::String)
    funcs,      \* Interpreter.funcs: name -> FnObj
    scope,      \* ScopeManager.scope: the chain of frames, outermost first
    ctl,        \* the open invocations of the evaluator, outermost first
    ret,        \* the result handed from a finished invocation to its caller
    phase,      \* where interpret / main are
    err,        \* the RuntimeError that interpret returned, if any
    heap,       \* the containers (Rc<RefCell<..>>) allocated so far, by handle
    out,        \* what was written to standard output, one entry per write
    diag,       \* the diagnostic of main for err
    source,     \* Lexer.source: the characters of the program text
    position,   \* Lexer.position
    tokens,     \* Lexer.tokens
    lex,        \* where the front end is
    parsed      \* the result of Parser::parse

vars == << decls, cmd_args, funcs, scope, ctl, ret, phase, err, heap, out, diag,
           source, position, tokens, lex, parsed >>

interpVars == << decls, cmd_args, funcs, scope, ctl, ret, phase, err, heap, out, diag >>
frontVars == << source, position, tokens, lex, parsed >>

-----------------------------------------------------------------------------
(* value.rs: Value *)

(* A String holds its characters as a sequence of one-character strings.    *)
(* An Object or List holds a handle (Rc) into heap, the containers          *)
(* (RefCell) allocated so far.                                              *)

Number(n) == [t |-> "Number", n |-> n, b |-> FALSE, s |-> << >>, ref |-> 0]
Boolean(b) == [t |-> "Boolean", n |-> 0, b |-> b, s |-> << >>, ref |-> 0]
String(s) == [t |-> "String", n |-> 0, b |-> FALSE, s |-> s, ref |-> 0]
Object(h) == [t |-> "Object", n |-> 0, b |-> FALSE, s |-> << >>, ref |-> h]
List(h) == [t |-> "List", n |-> 0, b |-> FALSE, s |-> << >>, ref |-> h]
Null == [t |-> "Null", n |-> 0, b |-> FALSE, s |-> << >>, ref |-> 0]

\* The contents of a container: the Vec of a list, the HashMap of an object.
ListCell(items) == [kind |-> "List", items |-> items, fields |-> << >>]
ObjectCell(fields) == [kind |-> "Object", items |-> << >>, fields |-> fields]

copy_shallow(v) ==
    CASE v.t = "Number" -> Number(v.n)
      [] v.t = "Boolean" -> Boolean(v.b)
      [] v.t = "String" -> String(v.s)
      [] v.t = "Object" -> Object(v.ref)
      [] v.t = "List" -> List(v.ref)
      [] OTHER -> Null

type_name(v) ==
    CASE v.t = "Number" -> "number"
      [] v.t = "Boolean" -> "boolean"
      [] v.t = "String" -> "string"
      [] v.t = "Object" -> "object"
      [] v.t = "List" -> "list"
      [] OTHER -> "null"

-----------------------------------------------------------------------------
(* interpreter.rs: RuntimeError; value.rs: OperationError.  An operation  *)
(* error carries its operands; main reads only their type names, kept in   *)
(* s1 and s3.                                                              *)

NoErr == [kind |-> "None", a |-> 0, b |-> 0, s1 |-> "", s2 |-> "", s3 |-> ""]
InvalidArgCount(a, b) == [NoErr EXCEPT !.kind = "InvalidArgCount", !.a = a, !.b = b]
UndefinedIdentifier(name) == [NoErr EXCEPT !.kind = "UndefinedIdentifier", !.s1 = name]
InvalidArgumentType(exp, got) ==
    [NoErr EXCEPT !.kind = "InvalidArgumentType", !.s1 = exp, !.s2 = got]
NoScope == [NoErr EXCEPT !.kind = "NoScope"]
IndexOutOfBounds(len, idx) == [NoErr EXCEPT !.kind = "IndexOutOfBounds", !.a = len, !.b = idx]
InvalidBinary(left, op, right) ==
    [NoErr EXCEPT !.kind = "InvalidBinary", !.s1 = type_name(left), !.s2 = op,
                  !.s3 = type_name(right)]
InvalidUnary(op, e) == [NoErr EXCEPT !.kind = "InvalidUnary", !.s1 = type_name(e), !.s2 = op]

\* The three ways a step of the source ends: a value, a RuntimeError, a panic.
Ok(v) == [st |-> "ok", v |-> v, e |-> NoErr]
Err(e) == [st |-> "err", v |-> Null, e |-> e]
Panic == [st |-> "panic", v |-> Null, e |-> NoErr]

-----------------------------------------------------------------------------
(* syntax.rs: Expr, Stmt, FnDecl *)

Identfier(name) == [t |-> "Identfier", name |-> name]
NumberLiteral(n) == [t |-> "NumberLiteral", num |-> n]
BooleanLiteral(b) == [t |-> "BooleanLiteral", bool |-> b]
StringLiteral(s) == [t |-> "StringLiteral", str |-> s]
NullLiteral == [t |-> "NullLiteral"]
FnCall(name, args) == [t |-> "FnCall", name |-> name, args |-> args]
Binary(op, left, right) == [t |-> "Binary", op |-> op, left |-> left, right |-> right]
Unary(op, e) == [t |-> "Unary", op |-> op, expr |-> e]
FieldAccess(obj, field) == [t |-> "FieldAccess", obj |-> obj, field |-> field]
\* fields: a sequence of << name, expr >>, the name as its characters
ObjectLiteral(fields) == [t |-> "ObjectLiteral", fields |-> fields]
ListLiteral(values) == [t |-> "ListLiteral", values |-> values]

ReturnStmt(e) == [t |-> "Return", expr |-> e]
IfStmt(cond, body) == [t |-> "If", cond |-> cond, body |-> body]
WhileStmt(cond, body) == [t |-> "While", cond |-> cond, body |-> body]
AssignStmt(var, val) == [t |-> "Assign", var |-> var, val |-> val]
DeclStmt(var, val) == [t |-> "Decl", var |-> var, val |-> val]
FnDecl(name, params, body) == [name |-> name, params |-> params, body |-> body]

-----------------------------------------------------------------------------
(* scope.rs.  The chain of parent-linked frames is a sequence: scope[1]    *)
(* is the outermost frame and scope[Len(scope)] the innermost, the one     *)
(* ScopeManager.scope holds; the empty sequence is ScopeManager.scope =    *)
(* None.  A frame is the HashMap variables: a function name -> Value.      *)

None == [some |-> FALSE, v |-> Null]
Some(v) == [some |-> TRUE, v |-> v]

Scope_new == << >>

push_scope(sc) == Append(sc, Scope_new)

\* Mutant of pop_scope: the popped frame's bindings survive in its parent.
pop_scope_Leak(sc) ==
    IF sc = << >> THEN [ok |-> FALSE, scope |-> sc]
    ELSE IF Len(sc) = 1 THEN [ok |-> TRUE, scope |-> << >>]
    ELSE [ok |-> TRUE,
          scope |-> [SubSeq(sc, 1, Len(sc) - 1) EXCEPT ![Len(sc) - 1] =
                        [m \in DOMAIN sc[Len(sc)] \cup DOMAIN sc[Len(sc) - 1] |->
                            IF m \in DOMAIN sc[Len(sc) - 1] THEN sc[Len(sc) - 1][m]
                            ELSE sc[Len(sc)][m]]]]

\* Ok(()) with the parent chain, or Err(()) when there is no scope.
pop_scope(sc) ==
    IF sc = << >> THEN [ok |-> FALSE, scope |-> sc]
    ELSE [ok |-> TRUE, scope |-> SubSeq(sc, 1, Len(sc) - 1)]

RECURSIVE Scope_get(_, _)
Scope_get(sc, var_name) ==
    IF sc = << >> THEN None
    ELSE IF var_name \in DOMAIN sc[Len(sc)] THEN Some(sc[Len(sc)][var_name])
    ELSE Scope_get(SubSeq(sc, 1, Len(sc) - 1), var_name)

\* get_mut: the index of the frame holding the binding that get_mut borrows
\* (0: none).
RECURSIVE Scope_get_mut(_, _)
Scope_get_mut(sc, var_name) ==
    IF sc = << >> THEN 0
    ELSE IF var_name \in DOMAIN sc[Len(sc)] THEN Len(sc)
    ELSE Scope_get_mut(SubSeq(sc, 1, Len(sc) - 1), var_name)

\* Mutant of Scope_set: an unbound name is bound in the innermost frame.
Scope_set_Creates(sc, var_name, new_value) ==
    LET k == Scope_get_mut(sc, var_name) IN
    IF k = 0
    THEN [ok |-> TRUE,
          scope |-> [sc EXCEPT ![Len(sc)] =
                        [m \in DOMAIN sc[Len(sc)] \cup {var_name} |->
                            IF m = var_name THEN new_value ELSE sc[Len(sc)][m]]]]
    ELSE [ok |-> TRUE, scope |-> [sc EXCEPT ![k][var_name] = new_value]]

Scope_set(sc, var_name, new_value) ==
    LET k == Scope_get_mut(sc, var_name) IN
    IF k = 0 THEN [ok |-> FALSE, scope |-> sc]
    ELSE [ok |-> TRUE, scope |-> [sc EXCEPT ![k][var_name] = new_value]]

\* Mutant of Scope_declare: a name bound in an outer frame is overwritten there.
Scope_declare_Found(sc, var_name, initial_value) ==
    LET k == IF Scope_get_mut(sc, var_name) = 0 THEN Len(sc)
             ELSE Scope_get_mut(sc, var_name)
    IN  [sc EXCEPT ![k] =
            [m \in DOMAIN sc[k] \cup {var_name} |->
                IF m = var_name THEN initial_value ELSE sc[k][m]]]

\* HashMap::insert into the variables of the innermost frame.
Scope_declare(sc, var_name, initial_value) ==
    [sc EXCEPT ![Len(sc)] =
        [m \in DOMAIN sc[Len(sc)] \cup {var_name} |->
            IF m = var_name THEN initial_value ELSE sc[Len(sc)][m]]]

-----------------------------------------------------------------------------
(* value.rs: Operator and Value::operate.  Number is i32.  An i32 sum,     *)
(* difference or product out of range panics in a build with overflow      *)
(* checks and wraps in one without: both outcomes are kept.                *)

I32Max == 2147483647
I32Min == (-I32Max) - 1

AddOverflows(a, b) == (b > 0 /\ a > I32Max - b) \/ (b < 0 /\ a < I32Min - b)

\* a + b modulo 2^32, computed without leaving the i32 range.
WrappingAdd(a, b) ==
    IF b > 0 /\ a > I32Max - b THEN (a + I32Min) + (b + I32Min)
    ELSE IF b < 0 /\ a < I32Min - b THEN (a - I32Min) + (b - I32Min)
    ELSE a + b

SubOverflows(a, b) == (b < 0 /\ a > I32Max + b) \/ (b > 0 /\ a < I32Min + b)

WrappingSub(a, b) ==
    IF b < 0 /\ a > I32Max + b THEN (a + I32Min) - (b - I32Min)
    ELSE IF b > 0 /\ a < I32Min + b THEN (a - I32Min) - (b + I32Min)
    ELSE a - b

Abs(a) == IF a < 0 THEN -a ELSE a

MulOverflows(a, b) ==
    IF a = 0 \/ b = 0 THEN FALSE
    ELSE IF a = I32Min THEN b # 1
    ELSE IF b = I32Min THEN a # 1
    ELSE IF (a > 0) = (b > 0) THEN Abs(a) > I32Max \div Abs(b)
    ELSE LET q == I32Min \div Abs(b)
             c == IF I32Min % Abs(b) = 0 THEN q ELSE q + 1
         IN  (-Abs(a)) < c

\* a * b modulo 2^32 by doubling and adding over the n low bits of b.
RECURSIVE WrappingMulBits(_, _, _)
WrappingMulBits(a, b, n) ==
    IF n = 0 THEN 0
    ELSE CHOOSE v \in { WrappingAdd(IF b % 2 = 1 THEN a ELSE 0, rest) :
                          rest \in { WrappingMulBits(twice, b \div 2, n - 1) :
                                        twice \in { WrappingAdd(a, a) } } } : TRUE

WrappingMul(a, b) == IF MulOverflows(a, b) THEN WrappingMulBits(a, b, 32) ELSE a * b

\* i32 division truncates toward zero (b # 0, and not i32::MIN / -1).
TruncDivPos(a, b) ==
    IF a >= 0 \/ a % b = 0 THEN a \div b ELSE (a \div b) + 1

TruncDiv(a, b) ==
    IF b > 0 THEN TruncDivPos(a, b)
    ELSE IF b = I32Min THEN (IF a = I32Min THEN 1 ELSE 0)
    ELSE -TruncDivPos(a, -b)

Arith(overflows, wrapped) ==
    IF overflows THEN {Panic, Ok(Number(wrapped))} ELSE {Ok(Number(wrapped))}

\* Operator::try_from(TokenKind)
Operator_try_from(kind) ==
    CASE kind = "Plus" -> Some("Plus")
      [] kind = "Minus" -> Some("Minus")
      [] kind = "Star" -> Some("Star")
      [] kind = "Slash" -> Some("Slash")
      [] kind = "LessThan" -> Some("LessThan")
      [] kind = "GreaterThan" -> Some("GreaterThan")
      [] OTHER -> [some |-> FALSE, v |-> ""]

\* Mutant of get_prec: the multiplicative operators have the precedence of
\* the additive ones.
get_prec_StarAdditive(op) ==
    CASE op \in {"Plus", "Minus", "Star", "Slash"} -> 2
      [] op \in {"LessThan", "GreaterThan"} -> 1
      [] OTHER -> 0

get_prec(op) ==
    CASE op \in {"Plus", "Minus"} -> 2
      [] op \in {"Star", "Slash"} -> 3
      [] op \in {"LessThan", "GreaterThan"} -> 1
      [] OTHER -> 0

\* Mutant of object_plus: on a key of both objects the left value is kept.
object_plus_LeftWins(obj1, obj2) ==
    [k \in DOMAIN obj1 \cup DOMAIN obj2 |->
        IF k \in DOMAIN obj1 THEN copy_shallow(obj1[k]) ELSE copy_shallow(obj2[k])]

\* value.rs lines 114-123: obj1.iter().chain(obj2.iter()) collected into a
\* HashMap: a key of both objects ends with the value of obj2.
object_plus(obj1, obj2) ==
    [k \in DOMAIN obj1 \cup DOMAIN obj2 |->
        IF k \in DOMAIN obj2 THEN copy_shallow(obj2[k]) ELSE copy_shallow(obj1[k])]

\* value.rs lines 130-139: the entries of obj1 whose key obj2 does not hold
object_minus(obj1, obj2) ==
    [k \in DOMAIN obj1 \ DOMAIN obj2 |-> copy_shallow(obj1[k])]

\* The outcomes of self.operate(other, op): a set of [res, heap].  Only the
\* object operators allocate.
Pure(results, hp) == {[res |-> r, heap |-> hp] : r \in results}

operate(self, other, op, hp) ==
    LET nums == self.t = "Number" /\ other.t = "Number"
        objs == self.t = "Object" /\ other.t = "Object"
        invalid == Pure({Err(InvalidBinary(self, op, other))}, hp)
        alloc(fields) ==
            {[res |-> Ok(Object(Len(hp) + 1)), heap |-> Append(hp, ObjectCell(fields))]}
    IN
    CASE op = "Plus" ->
            IF nums THEN Pure(Arith(AddOverflows(self.n, other.n),
                                    WrappingAdd(self.n, other.n)), hp)
            ELSE IF self.t = "String" /\ other.t = "String"
                 THEN Pure({Ok(String(self.s \o other.s))}, hp)
            ELSE IF objs
                 THEN alloc(object_plus(hp[self.ref].fields, hp[other.ref].fields))
            ELSE invalid
      [] op = "Minus" ->
            IF nums THEN Pure(Arith(SubOverflows(self.n, other.n),
                                    WrappingSub(self.n, other.n)), hp)
            ELSE IF objs
                 THEN alloc(object_minus(hp[self.ref].fields, hp[other.ref].fields))
            ELSE invalid
      [] op = "Star" ->
            IF nums THEN Pure(Arith(MulOverflows(self.n, other.n),
                                    WrappingMul(self.n, other.n)), hp)
            ELSE invalid
      [] op = "Slash" ->
            IF nums
            THEN IF other.n = 0 \/ (self.n = I32Min /\ other.n = -1)
                 THEN Pure({Panic}, hp)
                 ELSE Pure({Ok(Number(TruncDiv(self.n, other.n)))}, hp)
            ELSE invalid
      [] op = "Equals" ->
            IF nums THEN Pure({Ok(Boolean(self.n = other.n))}, hp)
            ELSE IF self.t = "Boolean" /\ other.t = "Boolean"
                 THEN Pure({Ok(Boolean(self.b = other.b))}, hp)
            ELSE IF self.t = "String" /\ other.t = "String"
                 THEN Pure({Ok(Boolean(self.s = other.s))}, hp)
            ELSE IF self.t = "Null" /\ other.t = "Null"
                 THEN Pure({Ok(Boolean(TRUE))}, hp)
            ELSE invalid
      [] op = "LessThan" ->
            IF nums THEN Pure({Ok(Boolean(self.n < other.n))}, hp) ELSE invalid
      [] op = "GreaterThan" ->
            IF nums THEN Pure({Ok(Boolean(self.n > other.n))}, hp) ELSE invalid
      [] OTHER -> invalid

\* -num: only -i32::MIN is out of range.
operate_unary(self, op) ==
    IF op = "Minus" /\ self.t = "Number"
    THEN IF self.n = I32Min THEN {Panic, Ok(Number(I32Min))} ELSE {Ok(Number(-self.n))}
    ELSE {Err(InvalidUnary(op, self))}

-----------------------------------------------------------------------------
(* value.rs: impl fmt::Display for Value.  The fields of an object are     *)
(* written in the iteration order of its HashMap, which is any order: the  *)
(* display forms of a value are a set.                                     *)

DigitChars == << "0", "1", "2", "3", "4", "5", "6", "7", "8", "9" >>

\* The decimal digits of n <= 0, without the sign.
RECURSIVE NegDigits(_)
NegDigits(n) ==
    IF n > -10 THEN << DigitChars[(-n) + 1] >>
    ELSE LET q == TruncDivPos(n, 10)
         IN  NegDigits(q) \o << DigitChars[(10 * q - n) + 1] >>

NumberText(n) == IF n < 0 THEN << "-" >> \o NegDigits(n) ELSE NegDigits(-n)

\* The texts t1 ", " t2 ", " ... with ti drawn from sets[i].
RECURSIVE JoinSet(_)
JoinSet(sets) ==
    IF Len(sets) = 1 THEN sets[1]
    ELSE {a \o << ",", " " >> \o b : a \in sets[1], b \in JoinSet(Tail(sets))}

Orders(S) == {p \in [1..Cardinality(S) -> S] : \A i, j \in DOMAIN p : i # j => p[i] # p[j]}

RECURSIVE DisplaySet(_, _)
DisplaySet(v, hp) ==
    CASE v.t = "Number" -> {NumberText(v.n)}
      [] v.t = "Boolean" ->
            {IF v.b THEN << "t", "r", "u", "e" >> ELSE << "f", "a", "l", "s", "e" >>}
      [] v.t = "String" -> {v.s}
      [] v.t = "Null" -> {<< "n", "u", "l", "l" >>}
      [] v.t = "List" ->
            LET items == hp[v.ref].items IN
            IF items = << >> THEN {<< "{", "}" >>}
            ELSE {<< "[", " " >> \o j \o << " ", "]" >> :
                    j \in JoinSet([i \in DOMAIN items |-> DisplaySet(items[i], hp)])}
      [] OTHER ->
            LET fields == hp[v.ref].fields IN
            IF DOMAIN fields = {} THEN {<< "{", "}" >>}
            ELSE UNION {
                    {<< "{", " " >> \o j \o << " ", "}" >> :
                        j \in JoinSet([i \in DOMAIN p |->
                                {p[i] \o << ":", " " >> \o d :
                                    d \in DisplaySet(fields[p[i]], hp)}])} :
                    p \in Orders(DOMAIN fields)}

-----------------------------------------------------------------------------
(* str::parse::<i32>: an optional sign, then one or more decimal digits,   *)
(* the value in the i32 range.                                             *)

DigitValue(c) == (CHOOSE i \in DOMAIN DigitChars : DigitChars[i] = c) - 1
IsDigit(c) == \E i \in DOMAIN DigitChars : DigitChars[i] = c

\* The digits folded onto acc, which is kept <= 0 when neg and >= 0 otherwise.
RECURSIVE ParseDigits(_, _, _)
ParseDigits(chars, acc, neg) ==
    IF chars = << >> THEN Some(acc)
    ELSE IF ~IsDigit(Head(chars)) THEN [some |-> FALSE, v |-> 0]
    ELSE LET d == DigitValue(Head(chars)) IN
         IF neg
         THEN IF acc < TruncDivPos(I32Min + d, 10) THEN [some |-> FALSE, v |-> 0]
              ELSE ParseDigits(Tail(chars), acc * 10 - d, neg)
         ELSE IF acc > (I32Max - d) \div 10 THEN [some |-> FALSE, v |-> 0]
              ELSE ParseDigits(Tail(chars), acc * 10 + d, neg)

ParseI32(chars) ==
    IF chars = << >> THEN [some |-> FALSE, v |-> 0]
    ELSE IF Head(chars) \in {"+", "-"}
         THEN IF Tail(chars) = << >> THEN [some |-> FALSE, v |-> 0]
              ELSE ParseDigits(Tail(chars), 0, Head(chars) = "-")
    ELSE ParseDigits(chars, 0, FALSE)

\* str::trim
IsWhitespace(c) == c \in {" ", "\t", "\n", "\r"}

RECURSIVE TrimStart(_)
TrimStart(chars) ==
    IF chars # << >> /\ IsWhitespace(Head(chars)) THEN TrimStart(Tail(chars)) ELSE chars

RECURSIVE TrimEnd(_)
TrimEnd(chars) ==
    IF chars # << >> /\ IsWhitespace(chars[Len(chars)])
    THEN TrimEnd(SubSeq(chars, 1, Len(chars) - 1)) ELSE chars

Trim(chars) == TrimEnd(TrimStart(chars))

\* What read_line may deliver from standard input.
StdinLines == { << "7", "\n" >>, << " ", "h", "i", " ", "\n" >>, << >> }

-----------------------------------------------------------------------------
(* interpreter.rs: FnObj and the builtins of define_builtins.              *)

BuiltinFn(name, n) ==
    [kind |-> "Builtin", param_count |-> n, native |-> name, params |-> << >>, body |-> << >>]
Defined(params, body) ==
    [kind |-> "Defined", param_count |-> 0, native |-> "", params |-> params, body |-> body]

param_count(func) ==
    IF func.kind = "Builtin" THEN func.param_count ELSE Len(func.params)

\* HashMap::insert
Insert(map, key, value) ==
    [k \in DOMAIN map \cup {key} |-> IF k = key THEN value ELSE map[k]]

define_fn(fs, name, n) == Insert(fs, name, BuiltinFn(name, n))

define_builtins(fs) ==
    define_fn(define_fn(define_fn(define_fn(define_fn(define_fn(define_fn(define_fn(fs,
        "print", 1), "prompt", 1), "parseint", 1), "tostring", 1), "len", 1),
        "get", 2), "set", 3), "append", 2)

\* The outcomes of the native body of a builtin on args (as many as its
\* param_count): a set of [res, heap, out], out being what it writes.
Outcome(res, hp, written) == [res |-> res, heap |-> hp, out |-> written]

\* Vec::get(index as usize): a negative index is a huge usize.
InBounds(items, index) == index >= 0 /\ index < Len(items)

\* lines 99-107
parseint_body(args, hp) ==
    IF args[1].t = "String"
    THEN LET r == ParseI32(args[1].s) IN
         {Outcome(IF r.some THEN Ok(Number(r.v)) ELSE Panic, hp, << >>)}
    ELSE {Outcome(Err(InvalidArgumentType("string", type_name(args[1]))), hp, << >>)}

\* lines 113-126
len_body(args, hp) ==
    IF args[1].t # "List"
    THEN {Outcome(Err(InvalidArgumentType("list", type_name(args[1]))), hp, << >>)}
    ELSE {Outcome(Ok(Number(Len(hp[args[1].ref].items))), hp, << >>)}

\* Mutant of get_body: an index past the end gives the last element.
get_body_Clamps(args, hp) ==
    IF args[1].t # "List"
    THEN {Outcome(Err(InvalidArgumentType("list", type_name(args[1]))), hp, << >>)}
    ELSE IF args[2].t # "Number"
    THEN {Outcome(Err(InvalidArgumentType("number", type_name(args[2]))), hp, << >>)}
    ELSE LET items == hp[args[1].ref].items
             index == args[2].n
         IN  IF InBounds(items, index)
             THEN {Outcome(Ok(copy_shallow(items[index + 1])), hp, << >>)}
             ELSE IF index >= Len(items) /\ items # << >>
             THEN {Outcome(Ok(copy_shallow(items[Len(items)])), hp, << >>)}
             ELSE {Outcome(Err(IndexOutOfBounds(Len(items), index)), hp, << >>)}

\* lines 128-152
get_body(args, hp) ==
    IF args[1].t # "List"
    THEN {Outcome(Err(InvalidArgumentType("list", type_name(args[1]))), hp, << >>)}
    ELSE IF args[2].t # "Number"
    THEN {Outcome(Err(InvalidArgumentType("number", type_name(args[2]))), hp, << >>)}
    ELSE LET items == hp[args[1].ref].items
             index == args[2].n
         IN  IF InBounds(items, index)
             THEN {Outcome(Ok(copy_shallow(items[index + 1])), hp, << >>)}
             ELSE {Outcome(Err(IndexOutOfBounds(Len(items), index)), hp, << >>)}

\* Mutant of set_body: an index equal to the length grows the list.
set_body_Grows(args, hp) ==
    IF args[1].t # "List"
    THEN {Outcome(Err(InvalidArgumentType("list", type_name(args[1]))), hp, << >>)}
    ELSE IF args[2].t # "Number"
    THEN {Outcome(Err(InvalidArgumentType("number", type_name(args[2]))), hp, << >>)}
    ELSE LET items == hp[args[1].ref].items
             index == args[2].n
         IN  IF InBounds(items, index)
             THEN {Outcome(Ok(Null),
                           [hp EXCEPT ![args[1].ref].items[index + 1] = args[3]], << >>)}
             ELSE IF index = Len(items)
             THEN {Outcome(Ok(Null),
                           [hp EXCEPT ![args[1].ref].items = Append(@, args[3])], << >>)}
             ELSE {Outcome(Err(IndexOutOfBounds(Len(items), index)), hp, << >>)}

\* lines 154-182
set_body(args, hp) ==
    IF args[1].t # "List"
    THEN {Outcome(Err(InvalidArgumentType("list", type_name(args[1]))), hp, << >>)}
    ELSE IF args[2].t # "Number"
    THEN {Outcome(Err(InvalidArgumentType("number", type_name(args[2]))), hp, << >>)}
    ELSE LET items == hp[args[1].ref].items
             index == args[2].n
         IN  IF InBounds(items, index)
             THEN {Outcome(Ok(Null),
                           [hp EXCEPT ![args[1].ref].items[index + 1] = args[3]], << >>)}
             ELSE {Outcome(Err(IndexOutOfBounds(Len(items), index)), hp, << >>)}

\* Mutant of append_body: the value is pushed onto a copy of the list.
append_body_Copies(args, hp) ==
    IF args[1].t # "List"
    THEN {Outcome(Err(InvalidArgumentType("list", type_name(args[1]))), hp, << >>)}
    ELSE {Outcome(Ok(Null),
                  Append(hp, ListCell(Append(hp[args[1].ref].items, args[2]))), << >>)}

\* lines 184-199
append_body(args, hp) ==
    IF args[1].t # "List"
    THEN {Outcome(Err(InvalidArgumentType("list", type_name(args[1]))), hp, << >>)}
    ELSE {Outcome(Ok(Null),
                  [hp EXCEPT ![args[1].ref].items = Append(@, args[2])], << >>)}

builtin_body(name, args, hp) ==
    CASE name = "print" ->
            {Outcome(Ok(Null), hp, << d \o << "\n" >> >>) : d \in DisplaySet(args[1], hp)}
      [] name = "prompt" ->
            \* args.remove(0) leaves args empty: args[0] in the error path panics
            IF args[1].t # "String" THEN {Outcome(Panic, hp, << >>)}
            ELSE {Outcome(Ok(String(Trim(line))), hp, << args[1].s >>) : line \in StdinLines}
      [] name = "parseint" -> parseint_body(args, hp)
      [] name = "tostring" ->
            {Outcome(Ok(String(d)), hp, << >>) : d \in DisplaySet(args[1], hp)}
      [] name = "len" -> len_body(args, hp)
      [] name = "get" -> get_body(args, hp)
      [] name = "set" -> set_body(args, hp)
      [] OTHER -> append_body(args, hp)

-----------------------------------------------------------------------------
(* The control stack.  A record of ctl is one open invocation:             *)
(*   k = "interpret"       Interpreter::interpret (i: declarations folded) *)
(*   k = "interpret_body"  interpret_body (node.body, i: the statement at  *)
(*                         which its loop is)                              *)
(*   k = "call_fn"         call_fn of a user-defined function, waiting for *)
(*                         interpret_body                                  *)
(*   k = "interpret_stmt"  interpret_stmt of the statement node            *)
(*   k = "evaluate"        evaluate of the expression node                 *)
(* i is the place inside the invocation, acc the values it has evaluated   *)
(* so far.  entry is not program state: it records the scope chain as it   *)
(* was when the invocation was entered, for the properties that compare    *)
(* the chain at exit with the chain at entry.                              *)

Frame(k, node) == [k |-> k, node |-> node, i |-> 0, acc |-> << >>, entry |-> << >>]

Body(stmts) == [t |-> "Body", body |-> stmts]

\* ret: nothing; the Ok(Value) of evaluate or call_fn; the Ok(BodyResult) of
\* interpret_stmt or interpret_body; the Err(RuntimeError) of any of them.
NoRet == [k |-> "none", v |-> Null, e |-> NoErr]
Value(v) == [k |-> "Value", v |-> v, e |-> NoErr]
BodyResult_Return(v) == [k |-> "Return", v |-> v, e |-> NoErr]
BodyResult_None == [k |-> "None", v |-> Null, e |-> NoErr]
Failure(e) == [k |-> "Err", v |-> Null, e |-> e]

Top == ctl[Len(ctl)]
Below == SubSeq(ctl, 1, Len(ctl) - 1)
Running == phase = "running" /\ ctl # << >>
At(k) == Running /\ Top.k = k
Fresh == ret.k = "none"

\* The number of open user-defined calls.
Depth == Cardinality({j \in DOMAIN ctl : ctl[j].k = "call_fn"})

SetP(c, r, sc, hp, o, ph) ==
    /\ ctl' = c
    /\ ret' = r
    /\ scope' = sc
    /\ heap' = hp
    /\ out' = o
    /\ phase' = ph
    /\ UNCHANGED << decls, cmd_args, funcs, err, diag >>
    /\ UNCHANGED frontVars

Set(c, r, sc, hp, o) == SetP(c, r, sc, hp, o, phase)

Go(c, r) == Set(c, r, scope, heap, out)

\* A panic ends the process: no statement of the program runs after it.
DoPanic ==
    /\ phase' = "panicked"
    /\ ctl' = << >>
    /\ ret' = NoRet
    /\ UNCHANGED << decls, cmd_args, funcs, scope, err, heap, out, diag >>
    /\ UNCHANGED frontVars

\* The top invocation ends with r (Ok, Err or Panic): Ok hands rv to the
\* caller, Err hands the error to the caller (the ? operator).
Finish(r, rv, hp, o) ==
    CASE r.st = "ok" -> Set(Below, rv, scope, hp, o)
      [] r.st = "err" -> Set(Below, Failure(r.e), scope, hp, o)
      [] OTHER -> DoPanic

\* The top invocation calls evaluate(e) and waits at place i.
CallEvaluate(e, i) ==
    Go(Append([ctl EXCEPT ![Len(ctl)].i = i], Frame("evaluate", e)), NoRet)

\* interpret_body, lines 222-226: the invocation record and push_scope.
interpret_body_frame(body, sc) ==
    [Frame("interpret_body", Body(body)) EXCEPT !.i = 1, !.entry = sc]

-----------------------------------------------------------------------------
(* interpreter.rs: call_fn(func, args) up to its call of interpret_body.   *)
(* The outcomes: a set of [kind, e, v, scope, heap, out, frames] with kind *)
(*   "err"    the argument count mismatch, or the error of a builtin       *)
(*   "panic"  a builtin panicked                                           *)
(*   "value"  a builtin returned v                                         *)
(*   "enter"  a user-defined function: its frame is pushed, its parameters *)
(*            are declared, and interpret_body is entered (frames)         *)

CallOutcome(kind, e, v, sc, hp, o, frames) ==
    [kind |-> kind, e |-> e, v |-> v, scope |-> sc, heap |-> hp, out |-> o,
     frames |-> frames]

\* for (param, arg) in params.iter().zip(args): declare(param, arg)
RECURSIVE declare_params(_, _, _)
declare_params(sc, params, args) ==
    IF params = << >> \/ args = << >> THEN sc
    ELSE declare_params(Scope_declare(sc, Head(params), Head(args)),
                        Tail(params), Tail(args))

\* Mutant of call_fn: a user-defined function checks the count after it has
\* pushed its frame and bound its parameters.
call_fn_LateCheck(func, args, sc, hp) ==
    IF func.kind = "Builtin"
    THEN IF Len(args) # param_count(func)
         THEN {CallOutcome("err", InvalidArgCount(Len(args), param_count(func)),
                           Null, sc, hp, << >>, << >>)}
         ELSE {CallOutcome(CASE o.res.st = "ok" -> "value"
                             [] o.res.st = "err" -> "err"
                             [] OTHER -> "panic",
                           o.res.e, o.res.v, sc, o.heap, o.out, << >>) :
                 o \in builtin_body(func.native, args, hp)}
    ELSE LET bound == declare_params(push_scope(sc), func.params, args) IN
         IF Len(args) # param_count(func)
         THEN {CallOutcome("err", InvalidArgCount(Len(args), param_count(func)),
                           Null, bound, hp, << >>, << >>)}
         ELSE {CallOutcome("enter", NoErr, Null, push_scope(bound), hp, << >>,
                           << [Frame("call_fn", Body(func.body)) EXCEPT !.entry = sc],
                              interpret_body_frame(func.body, bound) >>)}

\* Mutant of call_fn: the body runs in the frame that holds the parameters.
call_fn_OneFrame(func, args, sc, hp) ==
    IF Len(args) # param_count(func)
    THEN {CallOutcome("err", InvalidArgCount(Len(args), param_count(func)),
                      Null, sc, hp, << >>, << >>)}
    ELSE IF func.kind = "Builtin"
    THEN {CallOutcome(CASE o.res.st = "ok" -> "value"
                        [] o.res.st = "err" -> "err"
                        [] OTHER -> "panic",
                      o.res.e, o.res.v, sc, o.heap, o.out, << >>) :
            o \in builtin_body(func.native, args, hp)}
    ELSE LET bound == declare_params(push_scope(sc), func.params, args)
         IN  {CallOutcome("enter", NoErr, Null, bound, hp, << >>,
                          << [Frame("call_fn", Body(func.body)) EXCEPT !.entry = sc],
                             interpret_body_frame(func.body, bound) >>)}

call_fn(func, args, sc, hp) ==
    IF Len(args) # param_count(func)
    THEN {CallOutcome("err", InvalidArgCount(Len(args), param_count(func)),
                      Null, sc, hp, << >>, << >>)}
    ELSE IF func.kind = "Builtin"
    THEN {CallOutcome(CASE o.res.st = "ok" -> "value"
                        [] o.res.st = "err" -> "err"
                        [] OTHER -> "panic",
                      o.res.e, o.res.v, sc, o.heap, o.out, << >>) :
            o \in builtin_body(func.native, args, hp)}
    ELSE LET bound == declare_params(push_scope(sc), func.params, args)
         IN  {CallOutcome("enter", NoErr, Null, push_scope(bound), hp, << >>,
                          << [Frame("call_fn", Body(func.body)) EXCEPT !.entry = sc],
                             interpret_body_frame(func.body, bound) >>)}

\* What the caller at the top of c does with an outcome of call_fn.
ApplyCall(c, o) ==
    CASE o.kind = "value" -> SetP(c, Value(o.v), o.scope, o.heap, out \o o.out, "running")
      [] o.kind = "enter" ->
            SetP(c \o o.frames, NoRet, o.scope, o.heap, out \o o.out, "running")
      [] o.kind = "err" -> SetP(c, Failure(o.e), o.scope, o.heap, out \o o.out, "running")
      [] OTHER -> DoPanic

-----------------------------------------------------------------------------
(* interpreter.rs: Interpreter::interpret; main.rs: the report of a        *)
(* RuntimeError.                                                           *)

\* Mutant of interpret_decl: a name the table already holds keeps its entry.
interpret_decl_KeepsFirst(fs, decl) ==
    IF decl.name \in DOMAIN fs THEN fs
    ELSE Insert(fs, decl.name, Defined(decl.params, decl.body))

\* lines 288-300
interpret_decl(fs, decl) == Insert(fs, decl.name, Defined(decl.params, decl.body))

\* interpret, line 203
DefineBuiltins ==
    /\ phase = "new"
    /\ funcs' = define_builtins(funcs)
    /\ ctl' = << Frame("interpret", Body(<< >>)) >>
    /\ phase' = "decls"
    /\ UNCHANGED << decls, cmd_args, scope, ret, err, heap, out, diag >>
    /\ UNCHANGED frontVars

\* interpret, lines 205-207
InterpretDecl ==
    /\ phase = "decls"
    /\ Top.i < Len(decls)
    /\ funcs' = interpret_decl(funcs, decls[Top.i + 1])
    /\ ctl' = [ctl EXCEPT ![Len(ctl)].i = @ + 1]
    /\ UNCHANGED << decls, cmd_args, scope, ret, phase, err, heap, out, diag >>
    /\ UNCHANGED frontVars

\* interpret, lines 209-217
CallMain ==
    /\ phase = "decls"
    /\ Top.i = Len(decls)
    /\ IF "main" \notin DOMAIN funcs THEN DoPanic
       ELSE \E o \in call_fn(funcs["main"], cmd_args, scope, heap) : ApplyCall(ctl, o)

\* interpret, lines 215-219: call_fn returned Ok
InterpretOk ==
    /\ At("interpret")
    /\ ret.k = "Value"
    /\ SetP(<< >>, NoRet, scope, heap, out, "done")

\* interpret, line 215: call_fn returned Err
InterpretErr ==
    /\ At("interpret")
    /\ ret.k = "Err"
    /\ phase' = "failed"
    /\ err' = ret.e
    /\ ctl' = << >>
    /\ ret' = NoRet
    /\ UNCHANGED << decls, cmd_args, funcs, scope, heap, out, diag >>
    /\ UNCHANGED frontVars

\* main.rs, lines 51-89: format!(template, args...) handed to
\* report_runtime_err.  A name stands for its text.
Diag(template, args) == [template |-> template, args |-> args]
NoDiag == Diag("", << >>)

report(e) ==
    CASE e.kind = "InvalidBinary" ->
            Diag("Cannot use binary operator {:?} on types {} and {}",
                 << << e.s2 >>, << e.s1 >>, << e.s3 >> >>)
      [] e.kind = "InvalidUnary" ->
            Diag("Cannot use unary operator {:?} on type {}", << << e.s2 >>, << e.s1 >> >>)
      [] e.kind = "InvalidArgCount" ->
            Diag("Expected {} args, got {}", << NumberText(e.a), NumberText(e.b) >>)
      [] e.kind = "UndefinedIdentifier" -> Diag("Unknown identifier: {}", << << e.s1 >> >>)
      [] e.kind = "InvalidArgumentType" ->
            Diag("Expected type {expected}, got {got}", << << e.s1 >>, << e.s2 >> >>)
      [] e.kind = "NoScope" -> Diag("All scopes have been popped", << >>)
      [] OTHER ->
            Diag("Index out of bounds: used index {} on a list of length {}",
                 << NumberText(e.b), NumberText(e.a) >>)

Report ==
    /\ phase = "failed"
    /\ phase' = "reported"
    /\ diag' = report(err)
    /\ UNCHANGED << decls, cmd_args, funcs, scope, ctl, ret, err, heap, out >>
    /\ UNCHANGED frontVars

-----------------------------------------------------------------------------
(* interpreter.rs: interpret_body *)

\* line 228-229: the loop calls interpret_stmt on the next statement
BodyNext ==
    /\ At("interpret_body")
    /\ Fresh
    /\ Top.i <= Len(Top.node.body)
    /\ Go(Append(ctl, Frame("interpret_stmt", Top.node.body[Top.i])), NoRet)

\* Mutant of BodyReturn: the early return leaves without popping the frame.
BodyReturn_NoPop ==
    /\ At("interpret_body")
    /\ ret.k = "Return"
    /\ Go(Below, ret)

\* lines 229-236: the statement gave Return: pop the frame and hand it on
BodyReturn ==
    /\ At("interpret_body")
    /\ ret.k = "Return"
    /\ LET p == pop_scope(scope) IN
       IF p.ok THEN Set(Below, ret, p.scope, heap, out)
       ELSE Go(Below, Failure(NoScope))

\* lines 228-237: the statement gave None: on to the next one
BodyContinue ==
    /\ At("interpret_body")
    /\ ret.k = "None"
    /\ Go([ctl EXCEPT ![Len(ctl)].i = @ + 1], NoRet)

\* lines 239-244: the loop is over
BodyEnd ==
    /\ At("interpret_body")
    /\ Fresh
    /\ Top.i > Len(Top.node.body)
    /\ LET p == pop_scope(scope) IN
       IF p.ok THEN Set(Below, BodyResult_None, p.scope, heap, out)
       ELSE Go(Below, Failure(NoScope))

\* Mutant of PropagateErr: a statement that failed counts as done, and the
\* body goes on with the next one.
PropagateErr_Skips ==
    /\ Running
    /\ ret.k = "Err"
    /\ Top.k \in {"interpret_body", "interpret_stmt", "evaluate"}
    /\ Go(Below, IF Top.k = "interpret_stmt" THEN BodyResult_None ELSE ret)

\* The ? operator: interpret_body, interpret_stmt and evaluate return the
\* error of the call they made, at once.
PropagateErr ==
    /\ Running
    /\ ret.k = "Err"
    /\ Top.k \in {"interpret_body", "interpret_stmt", "evaluate"}
    /\ Go(Below, ret)

\* call_fn, lines 272-283: interpret_body is back, with a result or an error
CallFnReturn ==
    /\ At("call_fn")
    /\ ret.k \in {"Return", "None", "Err"}
    /\ LET res == CASE ret.k = "Return" -> Value(ret.v)
                    [] ret.k = "None" -> Value(Null)
                    [] OTHER -> ret
           p == pop_scope(scope)
       IN  IF p.ok THEN Set(Below, res, p.scope, heap, out)
           ELSE Go(Below, Failure(NoScope))

-----------------------------------------------------------------------------
(* interpreter.rs: interpret_stmt *)

InStmt(t) == At("interpret_stmt") /\ Top.node.t = t
InExpr(t) == At("evaluate") /\ Top.node.t = t
AtPlace(i) == ctl[Len(ctl)].i = i
Wait(i) == [ctl EXCEPT ![Len(ctl)].i = i]

\* The expression a statement evaluates first.
StmtExpr(stmt) ==
    CASE stmt.t \in {"If", "While"} -> stmt.cond
      [] stmt.t = "Return" -> stmt.expr
      [] OTHER -> stmt.val

\* lines 318, 329, 344, 347, 357: self.evaluate(..) of the statement
StmtEvaluate ==
    /\ At("interpret_stmt")
    /\ Top.node.t \in {"If", "While", "Return", "Assign", "Decl"}
    /\ Fresh
    /\ AtPlace(0)
    /\ CallEvaluate(StmtExpr(Top.node), 1)

\* lines 318-326
IfCond ==
    /\ InStmt("If")
    /\ AtPlace(1)
    /\ ret.k = "Value"
    /\ IF ret.v.t # "Boolean" THEN DoPanic
       ELSE IF ret.v.b
       THEN Set(Append(Wait(2), interpret_body_frame(Top.node.body, scope)), NoRet,
                push_scope(scope), heap, out)
       ELSE Go(Below, BodyResult_None)

\* line 323: the result of interpret_body is the result of the statement
IfBody ==
    /\ InStmt("If")
    /\ AtPlace(2)
    /\ ret.k \in {"Return", "None"}
    /\ Go(Below, ret)

\* lines 329-338
WhileCond ==
    /\ InStmt("While")
    /\ AtPlace(1)
    /\ ret.k = "Value"
    /\ IF ret.v.t # "Boolean" THEN DoPanic
       ELSE IF ~ret.v.b THEN Go(Below, BodyResult_None)
       ELSE Set(Append(Wait(2), interpret_body_frame(Top.node.body, scope)), NoRet,
                push_scope(scope), heap, out)

\* Mutant of WhileBody: a Return in the body does not leave the loop.
WhileBody_IgnoreReturn ==
    /\ InStmt("While")
    /\ AtPlace(2)
    /\ ret.k \in {"Return", "None"}
    /\ Go(Wait(0), NoRet)

\* Mutant of WhileBody: the loop ends after one run of its body.
WhileBody_Once ==
    /\ InStmt("While")
    /\ AtPlace(2)
    /\ ret.k \in {"Return", "None"}
    /\ IF ret.k = "Return" THEN Go(Below, ret) ELSE Go(Below, BodyResult_None)

\* lines 337-342: a Return leaves the loop, anything else starts it again
WhileBody ==
    /\ InStmt("While")
    /\ AtPlace(2)
    /\ ret.k \in {"Return", "None"}
    /\ IF ret.k = "Return" THEN Go(Below, ret) ELSE Go(Wait(0), NoRet)

\* lines 343-345
ReturnValue ==
    /\ InStmt("Return")
    /\ AtPlace(1)
    /\ ret.k = "Value"
    /\ Go(Below, BodyResult_Return(ret.v))

\* lines 346-355
AssignValue ==
    /\ InStmt("Assign")
    /\ AtPlace(1)
    /\ ret.k = "Value"
    /\ IF scope = << >> THEN Go(Below, Failure(NoScope))
       ELSE LET r == Scope_set(scope, Top.node.var, ret.v) IN
            IF r.ok THEN Set(Below, BodyResult_None, r.scope, heap, out)
            ELSE Go(Below, Failure(NoScope))

\* lines 356-364
DeclValue ==
    /\ InStmt("Decl")
    /\ AtPlace(1)
    /\ ret.k = "Value"
    /\ IF scope = << >> THEN Go(Below, Failure(NoScope))
       ELSE Set(Below, BodyResult_None, Scope_declare(scope, Top.node.var, ret.v),
                heap, out)

-----------------------------------------------------------------------------
(* interpreter.rs: a call, as a statement (lines 304-316) and as an        *)
(* expression (lines 382-394); the list and object literals (410-426).     *)

InCall == Running /\ Top.k \in {"interpret_stmt", "evaluate"} /\ Top.node.t = "FnCall"

\* lines 305-308, 383-386: self.funcs.get(name)
FnCallLookup ==
    /\ InCall
    /\ Fresh
    /\ AtPlace(0)
    /\ IF Top.node.name \in DOMAIN funcs THEN Go(Wait(1), NoRet)
       ELSE Go(Below, Failure(UndefinedIdentifier(Top.node.name)))

\* The expressions that a call, a list literal or an object literal evaluates
\* in order.
Elems(node) ==
    CASE node.t = "FnCall" -> node.args
      [] node.t = "ListLiteral" -> node.values
      [] OTHER -> [j \in DOMAIN node.fields |-> node.fields[j][2]]

InElems ==
    \/ InCall /\ AtPlace(1)
    \/ InExpr("ListLiteral")
    \/ InExpr("ObjectLiteral")

\* Mutant of ElemEvaluate: the expressions are evaluated from the last to
\* the first.
ElemEvaluate_RightToLeft ==
    /\ InElems
    /\ Fresh
    /\ Len(Top.acc) < Len(Elems(Top.node))
    /\ CallEvaluate(Elems(Top.node)[Len(Elems(Top.node)) - Len(Top.acc)], Top.i)

\* args.iter().map(|arg| self.evaluate(arg)): the next one
ElemEvaluate ==
    /\ InElems
    /\ Fresh
    /\ Len(Top.acc) < Len(Elems(Top.node))
    /\ CallEvaluate(Elems(Top.node)[Len(Top.acc) + 1], Top.i)

ElemValue ==
    /\ InElems
    /\ ret.k = "Value"
    /\ Go([ctl EXCEPT ![Len(ctl)].acc = Append(@, ret.v)], NoRet)

\* lines 309-314, 387-392: self.call_fn(func, args)
CallFn ==
    /\ InCall
    /\ AtPlace(1)
    /\ Fresh
    /\ Len(Top.acc) = Len(Top.node.args)
    /\ \E o \in call_fn(funcs[Top.node.name], Top.acc, scope, heap) :
          /\ o.kind = "enter" => Depth < MaxDepth
          /\ ApplyCall(Wait(2), o)

\* lines 314-315 and 392-393: call_fn returned Ok
FnCallOk ==
    /\ InCall
    /\ AtPlace(2)
    /\ ret.k = "Value"
    /\ Go(Below, IF Top.k = "interpret_stmt" THEN BodyResult_None ELSE ret)

RECURSIVE insert_fields(_, _, _)
insert_fields(object, fields, values) ==
    IF fields = << >> THEN object
    ELSE insert_fields(Insert(object, Head(fields)[1], Head(values)),
                       Tail(fields), Tail(values))

\* lines 410-418
ObjectLiteralValue ==
    /\ InExpr("ObjectLiteral")
    /\ Fresh
    /\ Len(Top.acc) = Len(Top.node.fields)
    /\ Set(Below, Value(Object(Len(heap) + 1)), scope,
           Append(heap, ObjectCell(insert_fields(<< >>, Top.node.fields, Top.acc))), out)

\* lines 419-426
ListLiteralValue ==
    /\ InExpr("ListLiteral")
    /\ Fresh
    /\ Len(Top.acc) = Len(Top.node.values)
    /\ Set(Below, Value(List(Len(heap) + 1)), scope, Append(heap, ListCell(Top.acc)), out)

-----------------------------------------------------------------------------
(* interpreter.rs: evaluate *)

\* lines 370-377
EvalIdentfier ==
    /\ InExpr("Identfier")
    /\ Fresh
    /\ IF scope = << >> THEN Go(Below, Failure(NoScope))
       ELSE LET g == Scope_get(scope, Top.node.name) IN
            IF g.some THEN Go(Below, Value(copy_shallow(g.v)))
            ELSE Go(Below, Failure(UndefinedIdentifier(Top.node.name)))

\* lines 378-381
EvalLiteral ==
    /\ At("evaluate")
    /\ Top.node.t \in {"NumberLiteral", "BooleanLiteral", "NullLiteral", "StringLiteral"}
    /\ Fresh
    /\ Go(Below, Value(CASE Top.node.t = "NumberLiteral" -> Number(Top.node.num)
                         [] Top.node.t = "BooleanLiteral" -> Boolean(Top.node.bool)
                         [] Top.node.t = "StringLiteral" -> String(Top.node.str)
                         [] OTHER -> Null))

\* line 396
EvalBinary ==
    /\ InExpr("Binary")
    /\ Fresh
    /\ AtPlace(0)
    /\ CallEvaluate(Top.node.left, 1)

\* line 397
EvalBinaryRight ==
    /\ InExpr("Binary")
    /\ AtPlace(1)
    /\ ret.k = "Value"
    /\ Go(Append([ctl EXCEPT ![Len(ctl)].i = 2, ![Len(ctl)].acc = << ret.v >>],
                 Frame("evaluate", Top.node.right)), NoRet)

\* lines 399-401
EvalBinaryOperate ==
    /\ InExpr("Binary")
    /\ AtPlace(2)
    /\ ret.k = "Value"
    /\ \E o \in operate(Top.acc[1], ret.v, Top.node.op, heap) :
          Finish(o.res, Value(o.res.v), o.heap, out)

\* line 404
EvalUnary ==
    /\ InExpr("Unary")
    /\ Fresh
    /\ AtPlace(0)
    /\ CallEvaluate(Top.node.expr, 1)

\* lines 406-408
EvalUnaryOperate ==
    /\ InExpr("Unary")
    /\ AtPlace(1)
    /\ ret.k = "Value"
    /\ \E r \in operate_unary(ret.v, Top.node.op) : Finish(r, Value(r.v), heap, out)

\* line 427: todo!()
EvalFieldAccess ==
    /\ InExpr("FieldAccess")
    /\ Fresh
    /\ DoPanic

-----------------------------------------------------------------------------
(* The inputs: the declarations handed to interpret.  Each program is      *)
(* written in the concrete syntax above its tree.                          *)

Var(name) == Identfier(name)
Num(n) == NumberLiteral(n)
Say(e) == FnCall("print", << e >>)
Main(body) == FnDecl("main", << >>, body)

\* fn main(){ let x = 1; x = x + 1; print(x); }
ProgAssign ==
    << Main(<< DeclStmt("x", Num(1)),
               AssignStmt("x", Binary("Plus", Var("x"), Num(1))),
               Say(Var("x")) >>) >>

\* fn add(a,b){ return a+b; } fn main(){ print(add(2,3)); }
ProgAdd ==
    << FnDecl("add", << "a", "b" >>, << ReturnStmt(Binary("Plus", Var("a"), Var("b"))) >>),
       Main(<< Say(FnCall("add", << Num(2), Num(3) >>)) >>) >>

\* fn main(){ if false { print("no"); } }
ProgIfFalse ==
    << Main(<< IfStmt(BooleanLiteral(FALSE), << Say(StringLiteral(<< "n", "o" >>)) >>) >>) >>

\* fn main(){ let i = 0; while i < 3 { print(i); i = i + 1; } }
ProgWhile ==
    << Main(<< DeclStmt("i", Num(0)),
               WhileStmt(Binary("LessThan", Var("i"), Num(3)),
                         << Say(Var("i")),
                            AssignStmt("i", Binary("Plus", Var("i"), Num(1))) >>) >>) >>

\* fn f(){ return x; } fn main(){ let x = 1; let r = f(); print(r); }
ProgReadCaller ==
    << FnDecl("f", << >>, << ReturnStmt(Var("x")) >>),
       Main(<< DeclStmt("x", Num(1)), DeclStmt("r", FnCall("f", << >>)),
               Say(Var("r")) >>) >>

\* fn f(){ x = 5; } fn main(){ let x = 1; f(); print(x); }
ProgWriteCaller ==
    << FnDecl("f", << >>, << AssignStmt("x", Num(5)) >>),
       Main(<< DeclStmt("x", Num(1)), FnCall("f", << >>), Say(Var("x")) >>) >>

\* fn f(a){ let y = a; if true { let z = 2; y = z; } return y; }
\* fn main(){ let r = f(7); print(r); print(y); }
ProgCalleeLocal ==
    << FnDecl("f", << "a" >>,
              << DeclStmt("y", Var("a")),
                 IfStmt(BooleanLiteral(TRUE),
                        << DeclStmt("z", Num(2)), AssignStmt("y", Var("z")) >>),
                 ReturnStmt(Var("y")) >>),
       Main(<< DeclStmt("r", FnCall("f", << Num(7) >>)), Say(Var("r")),
               Say(Var("y")) >>) >>

\* fn main(){ let x = 1; if true { let x = 2; let y = 3; print(x); x = 4; }
\*            print(x); if true { print(y); } }
ProgShadow ==
    << Main(<< DeclStmt("x", Num(1)),
               IfStmt(BooleanLiteral(TRUE),
                      << DeclStmt("x", Num(2)), DeclStmt("y", Num(3)), Say(Var("x")),
                         AssignStmt("x", Num(4)) >>),
               Say(Var("x")),
               IfStmt(BooleanLiteral(TRUE), << Say(Var("y")) >>) >>) >>

\* fn main(){ let x = 1; let x = 2; if true { x = 3; let x = 4; x = 5; } print(x); }
ProgRedeclare ==
    << Main(<< DeclStmt("x", Num(1)), DeclStmt("x", Num(2)),
               IfStmt(BooleanLiteral(TRUE),
                      << AssignStmt("x", Num(3)), DeclStmt("x", Num(4)),
                         AssignStmt("x", Num(5)) >>),
               Say(Var("x")) >>) >>

\* fn main(){ y = 1; }
ProgAssignUndeclared == << Main(<< AssignStmt("y", Num(1)) >>) >>

\* fn main(){ let x = 1; while x < 2 { let y = 1; x = x + y; } y = 2; }
ProgAssignAfterBlock ==
    << Main(<< DeclStmt("x", Num(1)),
               WhileStmt(Binary("LessThan", Var("x"), Num(2)),
                         << DeclStmt("y", Num(1)),
                            AssignStmt("x", Binary("Plus", Var("x"), Var("y"))) >>),
               AssignStmt("y", Num(2)) >>) >>

\* fn find(n){ let i = 0; while true { if i > n { return i; } i = i + 1; } print(9); }
\* fn main(){ print(find(1)); print(find(0)); }
ProgNestedReturn ==
    << FnDecl("find", << "n" >>,
              << DeclStmt("i", Num(0)),
                 WhileStmt(BooleanLiteral(TRUE),
                           << IfStmt(Binary("GreaterThan", Var("i"), Var("n")),
                                     << ReturnStmt(Var("i")) >>),
                              AssignStmt("i", Binary("Plus", Var("i"), Num(1))) >>),
                 Say(Num(9)) >>),
       Main(<< Say(FnCall("find", << Num(1) >>)), Say(FnCall("find", << Num(0) >>)) >>) >>

\* fn g(){ let a = 1; } fn h(){ return; print(8); } fn main(){ print(g()); print(h()); }
ProgNoReturn ==
    << FnDecl("g", << >>, << DeclStmt("a", Num(1)) >>),
       FnDecl("h", << >>, << ReturnStmt(NullLiteral), Say(Num(8)) >>),
       Main(<< Say(FnCall("g", << >>)), Say(FnCall("h", << >>)) >>) >>

\* fn f(a){ print(a); } fn main(){ let x = 1; f(x, 2); print(x); }
ProgTooManyArgs ==
    << FnDecl("f", << "a" >>, << Say(Var("a")) >>),
       Main(<< DeclStmt("x", Num(1)), FnCall("f", << Var("x"), Num(2) >>),
               Say(Var("x")) >>) >>

\* fn f(a, b){ print(a); } fn main(){ let r = f(print(1)); }
ProgTooFewArgs ==
    << FnDecl("f", << "a", "b" >>, << Say(Var("a")) >>),
       Main(<< DeclStmt("r", FnCall("f", << Say(Num(1)) >>)) >>) >>

\* fn f(a, b, c){ print(a); } fn main(){ f(print(1), y, print(2)); }
ProgArgFails ==
    << FnDecl("f", << "a", "b", "c" >>, << Say(Var("a")) >>),
       Main(<< FnCall("f", << Say(Num(1)), Var("y"), Say(Num(2)) >>) >>) >>

\* fn f(){ print(3); } fn main(){ let r = f(print(1), print(2)); }
ProgArgsThenCount ==
    << FnDecl("f", << >>, << Say(Num(3)) >>),
       Main(<< DeclStmt("r", FnCall("f", << Say(Num(1)), Say(Num(2)) >>)) >>) >>

\* fn main(){ print(); }
ProgBuiltinArgs == << Main(<< FnCall("print", << >>) >>) >>

\* fn main(a){ print(a); }
ProgMainParam == << FnDecl("main", << "a" >>, << Say(Var("a")) >>) >>

\* fn main(){ g(print(1)); }
ProgUndefinedFn == << Main(<< FnCall("g", << Say(Num(1)) >>) >>) >>

\* fn down(n){ if n > 0 { return down(n - 1); } return n; } fn main(){ print(down(2)); }
ProgRecursion ==
    << FnDecl("down", << "n" >>,
              << IfStmt(Binary("GreaterThan", Var("n"), Num(0)),
                        << ReturnStmt(FnCall("down", << Binary("Minus", Var("n"), Num(1)) >>)) >>),
                 ReturnStmt(Var("n")) >>),
       Main(<< Say(FnCall("down", << Num(2) >>)) >>) >>

\* fn f(){ return y; } fn main(){ let x = 1; if true { f(); } print(x); }
ProgErrInCall ==
    << FnDecl("f", << >>, << ReturnStmt(Var("y")) >>),
       Main(<< DeclStmt("x", Num(1)),
               IfStmt(BooleanLiteral(TRUE), << FnCall("f", << >>) >>),
               Say(Var("x")) >>) >>

\* fn main(){ while true { return 1; } print(2); }
ProgReturnInMain ==
    << Main(<< WhileStmt(BooleanLiteral(TRUE), << ReturnStmt(Num(1)) >>), Say(Num(2)) >>) >>

\* fn main(){ if 1 { print(1); } }
ProgIfNumber == << Main(<< IfStmt(Num(1), << Say(Num(1)) >>) >>) >>

\* fn main(){ while null { print(1); } }
ProgWhileNull == << Main(<< WhileStmt(NullLiteral, << Say(Num(1)) >>) >>) >>

\* fn main(){ print(1 + true); }
ProgInvalidBinary ==
    << Main(<< Say(Binary("Plus", Num(1), BooleanLiteral(TRUE))) >>) >>

\* fn main(){ print(-3); print(-"a"); }     (Unary has no concrete syntax)
ProgUnary ==
    << Main(<< Say(Unary("Minus", Num(3))),
               Say(Unary("Minus", StringLiteral(<< "a" >>))) >>) >>

\* fn main(){ print(7 / 2); print(2147483647 + 1); print(1 / 0); }
ProgArith ==
    << Main(<< Say(Binary("Slash", Num(7), Num(2))),
               Say(Binary("Plus", Num(I32Max), Num(1))),
               Say(Binary("Slash", Num(1), Num(0))) >>) >>

\* fn main(){ let l = [1, 2]; let m = l; append(m, 3); print(len(l)); set(l, 0, 5);
\*            print(get(m, 0)); print(l); print(get(l, 3)); }
ProgList ==
    << Main(<< DeclStmt("l", ListLiteral(<< Num(1), Num(2) >>)),
               DeclStmt("m", Var("l")),
               FnCall("append", << Var("m"), Num(3) >>),
               Say(FnCall("len", << Var("l") >>)),
               FnCall("set", << Var("l"), Num(0), Num(5) >>),
               Say(FnCall("get", << Var("m"), Num(0) >>)),
               Say(Var("l")),
               Say(FnCall("get", << Var("l"), Num(3) >>)) >>) >>

\* fn main(){ let o = {a: 1, b: 2} + {b: 3}; print(o - {a: 0}); print(tostring(true));
\*            print(parseint(prompt("?"))); }
ProgObject ==
    << Main(<< DeclStmt("o", Binary("Plus",
                    ObjectLiteral(<< << << "a" >>, Num(1) >>, << << "b" >>, Num(2) >> >>),
                    ObjectLiteral(<< << << "b" >>, Num(3) >> >>))),
               Say(Binary("Minus", Var("o"), ObjectLiteral(<< << << "a" >>, Num(0) >> >>))),
               Say(FnCall("tostring", << BooleanLiteral(TRUE) >>)),
               Say(FnCall("parseint", << FnCall("prompt", << StringLiteral(<< "?" >>) >>) >>))
            >>) >>

\* fn main(){ let o = {}; print(o.a); }     (field access has no evaluation)
ProgFieldAccess ==
    << Main(<< DeclStmt("o", ObjectLiteral(<< >>)),
               Say(FieldAccess(Var("o"), "a")) >>) >>

\* fn main(){ let l = [1]; print(len(l)); print(len(append(l, 2))); }
ProgLenAppend ==
    << Main(<< DeclStmt("l", ListLiteral(<< Num(1) >>)),
               Say(FnCall("len", << Var("l") >>)),
               Say(FnCall("len", << FnCall("append", << Var("l"), Num(2) >>) >>)) >>) >>

\* fn push(a, x){ append(a, x); set(a, 0, 9); }
\* fn main(){ let l = [1]; let m = 0; m = l; push(m, 2); print(len(l)); print(get(l, 0));
\*            let n = [l, 4]; let i = get(n, 0); append(i, 3); print(len(m));
\*            let s = "a"; let t = s; t = t + "b"; print(s); let c = 1; let d = c;
\*            d = d + 1; print(c); }
ProgAlias ==
    << FnDecl("push", << "a", "x" >>,
              << FnCall("append", << Var("a"), Var("x") >>),
                 FnCall("set", << Var("a"), Num(0), Num(9) >>) >>),
       Main(<< DeclStmt("l", ListLiteral(<< Num(1) >>)),
               DeclStmt("m", Num(0)),
               AssignStmt("m", Var("l")),
               FnCall("push", << Var("m"), Num(2) >>),
               Say(FnCall("len", << Var("l") >>)),
               Say(FnCall("get", << Var("l"), Num(0) >>)),
               DeclStmt("n", ListLiteral(<< Var("l"), Num(4) >>)),
               DeclStmt("i", FnCall("get", << Var("n"), Num(0) >>)),
               FnCall("append", << Var("i"), Num(3) >>),
               Say(FnCall("len", << Var("m") >>)),
               DeclStmt("s", StringLiteral(<< "a" >>)),
               DeclStmt("t", Var("s")),
               AssignStmt("t", Binary("Plus", Var("t"), StringLiteral(<< "b" >>))),
               Say(Var("s")),
               DeclStmt("c", Num(1)),
               DeclStmt("d", Var("c")),
               AssignStmt("d", Binary("Plus", Var("d"), Num(1))),
               Say(Var("c")) >>) >>

\* fn main(){ let l = [1, 2]; print(get(l, 1)); print(get(l, 0 - 1)); print(3); }
ProgGetNegative ==
    << Main(<< DeclStmt("l", ListLiteral(<< Num(1), Num(2) >>)),
               Say(FnCall("get", << Var("l"), Num(1) >>)),
               Say(FnCall("get", << Var("l"), Binary("Minus", Num(0), Num(1)) >>)),
               Say(Num(3)) >>) >>

\* fn main(){ let l = [1, 2]; set(l, 1, 7); print(l); set(l, 2, 9); print(l); }
ProgSetPast ==
    << Main(<< DeclStmt("l", ListLiteral(<< Num(1), Num(2) >>)),
               FnCall("set", << Var("l"), Num(1), Num(7) >>),
               Say(Var("l")),
               FnCall("set", << Var("l"), Num(2), Num(9) >>),
               Say(Var("l")) >>) >>

\* fn main(){ let l = [1]; set(l, 0 - 1, 9); print(l); }
ProgSetNegative ==
    << Main(<< DeclStmt("l", ListLiteral(<< Num(1) >>)),
               FnCall("set", << Var("l"), Binary("Minus", Num(0), Num(1)), Num(9) >>),
               Say(Var("l")) >>) >>

\* fn main(){ let a = {x: 1}; let b = {y: [2]}; let s = a + a; let d = a - a;
\*            let u = b + a; print(a); print(s); print(d); }
ProgSameObject ==
    << Main(<< DeclStmt("a", ObjectLiteral(<< << << "x" >>, Num(1) >> >>)),
               DeclStmt("b", ObjectLiteral(<< << << "y" >>, ListLiteral(<< Num(2) >>) >> >>)),
               DeclStmt("s", Binary("Plus", Var("a"), Var("a"))),
               DeclStmt("d", Binary("Minus", Var("a"), Var("a"))),
               DeclStmt("u", Binary("Plus", Var("b"), Var("a"))),
               Say(Var("a")), Say(Var("s")), Say(Var("d")) >>) >>

\* fn main(){ print(0 - 2147483647 - 2); print(65536 * 65536); print(46341 * 46341);
\*            print(2147483647 + 2147483647); }
ProgOverflow ==
    << Main(<< Say(Binary("Minus", Binary("Minus", Num(0), Num(I32Max)), Num(2))),
               Say(Binary("Star", Num(65536), Num(65536))),
               Say(Binary("Star", Num(46341), Num(46341))),
               Say(Binary("Plus", Num(I32Max), Num(I32Max))) >>) >>

\* fn f(){ return 1; } fn len(v){ return 7; } fn f(){ return 2; }
\* fn main(){ print(f()); print(len(0)); }
ProgDuplicate ==
    << FnDecl("f", << >>, << ReturnStmt(Num(1)) >>),
       FnDecl("len", << "v" >>, << ReturnStmt(Num(7)) >>),
       FnDecl("f", << >>, << ReturnStmt(Num(2)) >>),
       Main(<< Say(FnCall("f", << >>)), Say(FnCall("len", << Num(0) >>)) >>) >>

\* fn main(){ print(parseint("-12")); print(parseint(5)); }
ProgParseintNumber ==
    << Main(<< Say(FnCall("parseint", << StringLiteral(<< "-", "1", "2" >>) >>)),
               Say(FnCall("parseint", << Num(5) >>)) >>) >>

\* fn main(){ print(parseint("12a")); print(1); }
ProgParseintText ==
    << Main(<< Say(FnCall("parseint", << StringLiteral(<< "1", "2", "a" >>) >>)),
               Say(Num(1)) >>) >>

\* fn helper(){ return 1; }      (no main)
ProgNoMain == << FnDecl("helper", << >>, << ReturnStmt(Num(1)) >>) >>

Programs ==
    { ProgAssign, ProgAdd, ProgIfFalse, ProgWhile, ProgReadCaller, ProgWriteCaller,
      ProgCalleeLocal, ProgShadow, ProgRedeclare, ProgAssignUndeclared,
      ProgAssignAfterBlock, ProgNestedReturn, ProgNoReturn, ProgTooManyArgs,
      ProgTooFewArgs, ProgBuiltinArgs, ProgMainParam, ProgUndefinedFn, ProgRecursion,
      ProgErrInCall, ProgReturnInMain, ProgIfNumber, ProgWhileNull, ProgInvalidBinary,
      ProgUnary, ProgArith, ProgList, ProgObject, ProgFieldAccess, ProgNoMain,
      ProgLenAppend, ProgAlias, ProgGetNegative, ProgSetPast, ProgSetNegative,
      ProgSameObject, ProgOverflow, ProgDuplicate, ProgParseintNumber, ProgParseintText,
      ProgArgFails, ProgArgsThenCount }

CmdArgs == {[j \in 1..n |-> String(<< "a" >>)] : n \in 0..MaxArgs}

-----------------------------------------------------------------------------
(* lexer.rs.  A source text is the sequence of its characters, each a      *)
(* one-character string; the element "U+00E9" stands for the character of  *)
(* that code point, which takes two bytes in the String.                   *)

Chars(str) == [j \in 1..Len(str) |-> SubSeq(str, j, j)]

\* iter().collect::<String>(): the text as a name of the syntax tree
RECURSIVE Str(_)
Str(chars) == IF chars = << >> THEN "" ELSE Head(chars) \o Str(Tail(chars))

Token(text, kind) == [text |-> text, kind |-> kind]

symbols ==
    "(" :> "LeftParen" @@ ")" :> "RightParen" @@ "{" :> "LeftBrace" @@
    "}" :> "RightBrace" @@ "," :> "Comma" @@ ";" :> "Semicolon" @@
    ":" :> "Colon" @@ "+" :> "Plus" @@ "-" :> "Minus" @@ "*" :> "Star" @@
    "/" :> "Slash" @@ "=" :> "Equals" @@ "<" :> "LessThan" @@
    ">" :> "GreaterThan" @@ "." :> "Period"

keywords ==
    "fn" :> "FnKeyword" @@ "struct" :> "StructKeyword" @@ "let" :> "LetKeyword" @@
    "return" :> "ReturnKeyword" @@ "true" :> "TrueKeyword" @@
    "false" :> "FalseKeyword" @@ "null" :> "NullKeyword" @@ "if" :> "IfKeyword"

\* self.keywords.get(&text).unwrap_or(&TokenKind::Identifer)
keyword_kind(text) ==
    IF \E w \in DOMAIN keywords : Chars(w) = text
    THEN keywords[CHOOSE w \in DOMAIN keywords : Chars(w) = text]
    ELSE "Identifer"

Letters == Chars("abcdefghijklmnopqrstuvwxyzABCDEFGHIJKLMNOPQRSTUVWXYZ")

is_ascii_digit(c) == IsDigit(c)
is_ascii_alphabetic(c) == \E j \in DOMAIN Letters : Letters[j] = c
is_ascii_whitespace(c) == c \in {" ", "\t", "\n", "\r", "\f"}

\* The bytes of a character in the String, and Lexer.length = source.len().
len_utf8(c) == IF Len(c) = 1 THEN 1 ELSE 2

RECURSIVE Lexer_length(_)
Lexer_length(src) ==
    IF src = << >> THEN 0 ELSE len_utf8(Head(src)) + Lexer_length(Tail(src))

\* current(): Some(source[position]) while position < length, and the
\* index panics when position is past the characters.
Current(st, c) == [st |-> st, c |-> c]

Lexer_current(src, pos) ==
    IF pos < Lexer_length(src)
    THEN IF pos < Len(src) THEN Current("some", src[pos + 1]) ELSE Current("panic", "")
    ELSE Current("none", "")

\* The loops of scan_number, scan_identifier, skip_whitespace and
\* scan_string: the position they stop at, -1 when current() panics.
RECURSIVE scan_number_loop(_, _)
scan_number_loop(src, pos) ==
    LET cur == Lexer_current(src, pos) IN
    CASE cur.st = "panic" -> -1
      [] cur.st = "some" /\ is_ascii_digit(cur.c) -> scan_number_loop(src, pos + 1)
      [] OTHER -> pos

RECURSIVE scan_identifier_loop(_, _)
scan_identifier_loop(src, pos) ==
    LET cur == Lexer_current(src, pos) IN
    CASE cur.st = "panic" -> -1
      [] cur.st = "some" /\ (is_ascii_alphabetic(cur.c) \/ cur.c = "_") ->
            scan_identifier_loop(src, pos + 1)
      [] OTHER -> pos

RECURSIVE skip_whitespace_loop(_, _)
skip_whitespace_loop(src, pos) ==
    LET cur == Lexer_current(src, pos) IN
    CASE cur.st = "panic" -> -1
      [] cur.st = "some" /\ is_ascii_whitespace(cur.c) -> skip_whitespace_loop(src, pos + 1)
      [] OTHER -> pos

RECURSIVE scan_string_loop(_, _)
scan_string_loop(src, pos) ==
    LET cur == Lexer_current(src, pos) IN
    CASE cur.st = "panic" -> -1
      [] cur.st = "some" /\ cur.c # "\"" -> scan_string_loop(src, pos + 1)
      [] OTHER -> pos

\* source.iter().skip(start).take(position - start).collect()
Text(src, start, pos) ==
    SubSeq(src, start + 1, IF pos < Len(src) THEN pos ELSE Len(src))

\* scan_string, lines 121-133: the position after the closing quote
scan_string_end(src, pos) ==
    LET stop == scan_string_loop(src, pos + 1) IN
    IF stop < 0 THEN -1 ELSE stop + 1

Scanning == lex = "scanning"

\* The character scan_tokens looks at.
Looks(c) ==
    /\ Scanning
    /\ Lexer_current(source, position) = Current("some", c)

LexPanic ==
    /\ lex' = "panicked"
    /\ UNCHANGED << source, position, tokens, parsed >>
    /\ UNCHANGED interpVars

\* One of the scan functions returned at stop having read a token of kind.
Scanned(stop, kind) ==
    IF stop < 0 THEN LexPanic
    ELSE /\ position' = stop
         /\ tokens' = Append(tokens, Token(Text(source, position, stop), kind))
         /\ UNCHANGED << source, lex, parsed >>
         /\ UNCHANGED interpVars

\* scan_tokens, lines 201-202
ScanNumber ==
    \E c \in {source[j] : j \in DOMAIN source} :
        /\ Looks(c)
        /\ is_ascii_digit(c)
        /\ Scanned(scan_number_loop(source, position), "Number")

\* scan_tokens, lines 203-204
ScanIdentifier ==
    \E c \in {source[j] : j \in DOMAIN source} :
        /\ Looks(c)
        /\ (is_ascii_alphabetic(c) \/ c = "_")
        /\ LET stop == scan_identifier_loop(source, position) IN
           Scanned(stop, IF stop < 0 THEN "Identifer"
                         ELSE keyword_kind(Text(source, position, stop)))

\* scan_tokens, lines 205-206
SkipWhitespace ==
    \E c \in {source[j] : j \in DOMAIN source} :
        /\ Looks(c)
        /\ is_ascii_whitespace(c)
        /\ LET stop == skip_whitespace_loop(source, position) IN
           IF stop < 0 THEN LexPanic
           ELSE /\ position' = stop
                /\ UNCHANGED << source, tokens, lex, parsed >>
                /\ UNCHANGED interpVars

\* scan_tokens, lines 207-214
ScanSymbol ==
    \E c \in DOMAIN symbols :
        /\ Looks(c)
        /\ position' = position + 1
        /\ tokens' = Append(tokens, Token(<< c >>, symbols[c]))
        /\ UNCHANGED << source, lex, parsed >>
        /\ UNCHANGED interpVars

\* scan_tokens, lines 215-216
ScanString ==
    /\ Looks("\"")
    /\ Scanned(scan_string_end(source, position), "String")

\* scan_tokens, lines 217-218: panic!("Invalid char: {}")
InvalidChar ==
    \E c \in {source[j] : j \in DOMAIN source} :
        /\ Looks(c)
        /\ ~is_ascii_digit(c)
        /\ ~(is_ascii_alphabetic(c) \/ c = "_")
        /\ ~is_ascii_whitespace(c)
        /\ c \notin DOMAIN symbols
        /\ c # "\""
        /\ LexPanic

\* scan_tokens, line 200: current() indexes past the characters
CurrentPanics ==
    /\ Scanning
    /\ Lexer_current(source, position).st = "panic"
    /\ LexPanic

\* scan_tokens, lines 222-225
ScanEnd ==
    /\ Scanning
    /\ Lexer_current(source, position).st = "none"
    /\ tokens' = Append(tokens, Token(<< "\\0" >>, "EndOfFile"))
    /\ lex' = "scanned"
    /\ UNCHANGED << source, position, parsed >>
    /\ UNCHANGED interpVars

-----------------------------------------------------------------------------
(* parser.rs.  Every parse function is an operator of the tokens and the   *)
(* position it starts at; its result is Ok with the position it stops at   *)
(* and the tree it built, Err with the ParseError (the ? operator hands it *)
(* to the caller), or a panic.                                             *)

NoParseError == [kind |-> "", exp |-> "", rec |-> ""]
ExpectedToken(exp, rec) == [kind |-> "ExpectedToken", exp |-> exp, rec |-> rec]
ParseError_EndOfFile == [kind |-> "EndOfFile", exp |-> "", rec |-> ""]

Parsed(pos, val) == [st |-> "ok", pos |-> pos, val |-> val, e |-> NoParseError]
ParseErr(e) == [st |-> "err", pos |-> 0, val |-> << >>, e |-> e]
ParsePanic == [st |-> "panic", pos |-> 0, val |-> << >>, e |-> NoParseError]

HasCurrent(toks, pos) == pos < Len(toks)
Parser_current(toks, pos) == toks[pos + 1]
CurrentIs(toks, pos, kind) == HasCurrent(toks, pos) /\ Parser_current(toks, pos).kind = kind

\* peek(offset): tokens.get(position + offset)
HasPeek(toks, pos, offset) == 0 <= pos + offset /\ pos + offset < Len(toks)
peek(toks, pos, offset) == toks[pos + offset + 1]

consume(toks, pos, kind) ==
    IF ~HasCurrent(toks, pos) THEN ParseErr(ParseError_EndOfFile)
    ELSE IF toks[pos + 1].kind = kind THEN Parsed(pos + 1, toks[pos + 1])
    ELSE ParseErr(ExpectedToken(kind, toks[pos + 1].kind))

\* arg.parse::<usize>().unwrap() into the i32 of Expr::NumberLiteral.  The
\* text of a Number token is one or more digits.  A literal above usize::MAX
\* makes the unwrap panic; what a literal between i32::MAX and usize::MAX
\* becomes is not modelled, and Sources holds none.
parse_usize(text) == ParseDigits(text, 0, FALSE)

\* str[1..str.len() - 1] on the text of a String token, which starts with
\* the quote: the slice panics on the lone quote and inside a character.
CanSlice(text) == Len(text) >= 2 /\ len_utf8(text[Len(text)]) = 1
Slice(text) == SubSeq(text, 2, Len(text) - 1)

\* The ? operator: the Err or the panic of r ends the function with it, and
\* its Ok goes on.
Try(r, Then(_)) == IF r.st # "ok" THEN r ELSE Then(r)

RECURSIVE params_loop(_, _, _)
RECURSIVE parse_body(_, _)
RECURSIVE body_loop(_, _, _)
RECURSIVE parse_stmt(_, _)
RECURSIVE parse_expr_list(_, _)
RECURSIVE expr_list_loop(_, _, _)
RECURSIVE parse_binary_expr(_, _, _)
RECURSIVE binary_loop(_, _, _, _)
RECURSIVE parse_primary_expr(_, _)
RECURSIVE parse_object_fields(_, _)
RECURSIVE object_fields_loop(_, _, _)
RECURSIVE parse_fn_call(_, _)
RECURSIVE parse_loop(_, _, _)

\* parse_params, lines 119-131
params_loop(toks, pos, params) ==
    IF ~HasCurrent(toks, pos) THEN Parsed(pos, params)
    ELSE Try(consume(toks, pos, "Identifer"), LAMBDA name :
         IF CurrentIs(toks, name.pos, "RightParen")
         THEN Parsed(name.pos, Append(params, Str(name.val.text)))
         ELSE Try(consume(toks, name.pos, "Comma"), LAMBDA comma :
              params_loop(toks, comma.pos, Append(params, Str(name.val.text)))))

parse_params(toks, pos) ==
    IF CurrentIs(toks, pos, "RightParen") THEN Parsed(pos, << >>)
    ELSE params_loop(toks, pos, << >>)

parse_expr(toks, pos) == parse_binary_expr(toks, pos, 0)

\* parse_binary_expr, lines 192-213
binary_loop(toks, pos, left, parent_prec) ==
    IF ~HasCurrent(toks, pos) THEN Parsed(pos, left)
    ELSE IF ~Operator_try_from(Parser_current(toks, pos).kind).some THEN Parsed(pos, left)
    ELSE IF \/ get_prec(Operator_try_from(Parser_current(toks, pos).kind).v) = 0
            \/ get_prec(Operator_try_from(Parser_current(toks, pos).kind).v) <= parent_prec
    THEN Parsed(pos, left)
    ELSE Try(consume(toks, pos, Parser_current(toks, pos).kind), LAMBDA sign :
         Try(parse_binary_expr(toks, sign.pos, get_prec(Operator_try_from(sign.val.kind).v)),
             LAMBDA right :
         binary_loop(toks, right.pos,
                     Binary(Operator_try_from(sign.val.kind).v, left, right.val),
                     parent_prec)))

parse_binary_expr(toks, pos, parent_prec) ==
    Try(parse_primary_expr(toks, pos), LAMBDA left :
    binary_loop(toks, left.pos, left.val, parent_prec))

parse_fn_call(toks, pos) ==
    Try(consume(toks, pos, "Identifer"), LAMBDA name :
    Try(consume(toks, name.pos, "LeftParen"), LAMBDA open :
    Try(parse_expr_list(toks, open.pos), LAMBDA args :
    Try(consume(toks, args.pos, "RightParen"), LAMBDA close :
    Parsed(close.pos, FnCall(Str(name.val.text), args.val))))))

\* parse_expr_list, lines 163-173
expr_list_loop(toks, pos, exprs) ==
    IF ~HasCurrent(toks, pos) THEN Parsed(pos, exprs)
    ELSE Try(parse_expr(toks, pos), LAMBDA expr :
         IF CurrentIs(toks, expr.pos, "RightParen")
         THEN Parsed(expr.pos, Append(exprs, expr.val))
         ELSE Try(consume(toks, expr.pos, "Comma"), LAMBDA comma :
              expr_list_loop(toks, comma.pos, Append(exprs, expr.val))))

parse_expr_list(toks, pos) ==
    IF CurrentIs(toks, pos, "RightParen") THEN Parsed(pos, << >>)
    ELSE expr_list_loop(toks, pos, << >>)

\* parse_object_fields, lines 275-279 and 284-288: name ':' expr
parse_field(toks, pos) ==
    Try(consume(toks, pos, "Identifer"), LAMBDA name :
    Try(consume(toks, name.pos, "Colon"), LAMBDA colon :
    Try(parse_expr(toks, colon.pos), LAMBDA expr :
    Parsed(expr.pos, << name.val.text, expr.val >>))))

\* parse_object_fields, lines 281-289: current().unwrap() panics at the end
object_fields_loop(toks, pos, fields) ==
    IF ~HasCurrent(toks, pos) THEN ParsePanic
    ELSE IF Parser_current(toks, pos).kind = "RightBrace" THEN Parsed(pos, fields)
    ELSE Try(consume(toks, pos, "Comma"), LAMBDA comma :
         Try(parse_field(toks, comma.pos), LAMBDA field :
         object_fields_loop(toks, field.pos, Append(fields, field.val))))

parse_object_fields(toks, pos) ==
    IF ~HasCurrent(toks, pos) THEN ParseErr(ParseError_EndOfFile)
    ELSE IF Parser_current(toks, pos).kind = "RightBrace" THEN Parsed(pos, << >>)
    ELSE Try(parse_field(toks, pos), LAMBDA field :
         object_fields_loop(toks, field.pos, << field.val >>))

\* lines 224-228: what the text of the Number token gives
number_literal(stop, value) ==
    IF value.some THEN Parsed(stop, NumberLiteral(value.v)) ELSE ParsePanic

parse_primary_expr(toks, pos) ==
    IF ~HasCurrent(toks, pos) THEN ParseErr(ParseError_EndOfFile)
    ELSE
    CASE Parser_current(toks, pos).kind = "Number" ->
            Try(consume(toks, pos, "Number"), LAMBDA arg :
            number_literal(arg.pos, parse_usize(arg.val.text)))
      [] Parser_current(toks, pos).kind = "String" ->
            Try(consume(toks, pos, "String"), LAMBDA str :
            IF CanSlice(str.val.text)
            THEN Parsed(str.pos, StringLiteral(Slice(str.val.text)))
            ELSE ParsePanic)
      [] Parser_current(toks, pos).kind = "TrueKeyword" ->
            Try(consume(toks, pos, "TrueKeyword"), LAMBDA word :
            Parsed(word.pos, BooleanLiteral(TRUE)))
      [] Parser_current(toks, pos).kind = "FalseKeyword" ->
            Try(consume(toks, pos, "FalseKeyword"), LAMBDA word :
            Parsed(word.pos, BooleanLiteral(FALSE)))
      [] Parser_current(toks, pos).kind = "Identifer" ->
            IF ~HasPeek(toks, pos, 1) THEN ParsePanic
            ELSE IF peek(toks, pos, 1).kind = "LeftParen" THEN parse_fn_call(toks, pos)
            ELSE Try(consume(toks, pos, "Identifer"), LAMBDA ident :
                 Parsed(ident.pos, Identfier(Str(ident.val.text))))
      [] Parser_current(toks, pos).kind = "NullKeyword" -> Parsed(pos, NullLiteral)
      [] Parser_current(toks, pos).kind = "LeftBrace" ->
            Try(consume(toks, pos, "LeftBrace"), LAMBDA open :
            Try(parse_object_fields(toks, open.pos), LAMBDA fields :
            Try(consume(toks, fields.pos, "RightBrace"), LAMBDA close :
            Parsed(close.pos, ObjectLiteral(fields.val)))))
      [] OTHER -> parse_fn_call(toks, pos)

parse_return_stmt(toks, pos) ==
    Try(consume(toks, pos, "ReturnKeyword"), LAMBDA word :
    IF ~HasCurrent(toks, word.pos) THEN ParseErr(ParseError_EndOfFile)
    ELSE Try(IF Parser_current(toks, word.pos).kind = "Semicolon"
             THEN Parsed(word.pos, NullLiteral)
             ELSE parse_expr(toks, word.pos), LAMBDA expr :
         Try(consume(toks, expr.pos, "Semicolon"), LAMBDA semi :
         Parsed(semi.pos, ReturnStmt(expr.val)))))

parse_if_stmt(toks, pos) ==
    Try(consume(toks, pos, "IfKeyword"), LAMBDA word :
    Try(parse_expr(toks, word.pos), LAMBDA cond :
    Try(consume(toks, cond.pos, "LeftBrace"), LAMBDA open :
    Try(parse_body(toks, open.pos), LAMBDA body :
    Try(consume(toks, body.pos, "RightBrace"), LAMBDA close :
    Parsed(close.pos, IfStmt(cond.val, body.val)))))))

parse_assign(toks, pos) ==
    Try(consume(toks, pos, "Identifer"), LAMBDA var :
    Try(consume(toks, var.pos, "Equals"), LAMBDA equals :
    Try(parse_expr(toks, equals.pos), LAMBDA val :
    Parsed(val.pos, AssignStmt(Str(var.val.text), val.val)))))

\* parse_stmt, lines 306-313
parse_let(toks, pos) ==
    Try(consume(toks, pos, "LetKeyword"), LAMBDA word :
    Try(consume(toks, word.pos, "Identifer"), LAMBDA var :
    Try(consume(toks, var.pos, "Equals"), LAMBDA equals :
    Try(parse_expr(toks, equals.pos), LAMBDA val :
    Try(consume(toks, val.pos, "Semicolon"), LAMBDA semi :
    Parsed(semi.pos, DeclStmt(Str(var.val.text), val.val)))))))

parse_stmt(toks, pos) ==
    IF ~HasCurrent(toks, pos) THEN ParseErr(ParseError_EndOfFile)
    ELSE
    CASE Parser_current(toks, pos).kind = "ReturnKeyword" -> parse_return_stmt(toks, pos)
      [] Parser_current(toks, pos).kind = "IfKeyword" -> parse_if_stmt(toks, pos)
      [] Parser_current(toks, pos).kind = "LetKeyword" -> parse_let(toks, pos)
      [] OTHER ->
            IF ~HasPeek(toks, pos, 1) THEN ParseErr(ParseError_EndOfFile)
            ELSE Try(IF peek(toks, pos, 1).kind = "LeftParen"
                     THEN parse_fn_call(toks, pos)
                     ELSE parse_assign(toks, pos), LAMBDA stmt :
                 Try(consume(toks, stmt.pos, "Semicolon"), LAMBDA semi :
                 Parsed(semi.pos, stmt.val)))

\* parse_body, lines 141-147
body_loop(toks, pos, stmts) ==
    IF ~HasCurrent(toks, pos) \/ Parser_current(toks, pos).kind = "RightBrace"
    THEN Parsed(pos, stmts)
    ELSE Try(parse_stmt(toks, pos), LAMBDA stmt :
         body_loop(toks, stmt.pos, Append(stmts, stmt.val)))

parse_body(toks, pos) == body_loop(toks, pos, << >>)

parse_fn_decl(toks, pos) ==
    Try(consume(toks, pos, "FnKeyword"), LAMBDA word :
    Try(consume(toks, word.pos, "Identifer"), LAMBDA name :
    Try(consume(toks, name.pos, "LeftParen"), LAMBDA open :
    Try(parse_params(toks, open.pos), LAMBDA params :
    Try(consume(toks, params.pos, "RightParen"), LAMBDA close :
    Try(consume(toks, close.pos, "LeftBrace"), LAMBDA brace :
    Try(parse_body(toks, brace.pos), LAMBDA body :
    Try(consume(toks, body.pos, "RightBrace"), LAMBDA end :
    Parsed(end.pos, FnDecl(Str(name.val.text), params.val, body.val))))))))))

parse_decl(toks, pos) ==
    IF ~HasCurrent(toks, pos) THEN ParseErr(ParseError_EndOfFile)
    ELSE IF Parser_current(toks, pos).text = Chars("fn") THEN parse_fn_decl(toks, pos)
    ELSE ParsePanic

\* parse, lines 71-77
parse_loop(toks, pos, ds) ==
    IF ~HasCurrent(toks, pos) \/ Parser_current(toks, pos).kind = "EndOfFile"
    THEN Parsed(pos, ds)
    ELSE Try(parse_decl(toks, pos), LAMBDA decl :
         parse_loop(toks, decl.pos, Append(ds, decl.val)))

parse(toks) == parse_loop(toks, 0, << >>)

\* main.rs, lines 33-35: Parser::new(tokens).parse()
Parse ==
    /\ lex = "scanned"
    /\ parsed' = parse(tokens)
    /\ lex' = IF parsed'.st = "panic" THEN "panicked" ELSE "parsed"
    /\ UNCHANGED << source, position, tokens >>
    /\ UNCHANGED interpVars

\* main.rs, lines 37-44: report_parse_err panics with the message
ReportParseErr ==
    /\ lex = "parsed"
    /\ parsed.st = "err"
    /\ lex' = "panicked"
    /\ diag' = IF parsed.e.kind = "EndOfFile"
               THEN Diag("Expected token but reached end of file", << >>)
               ELSE Diag("Expected {:?}, got {:?}", << parsed.e.exp, parsed.e.rec >>)
    /\ UNCHANGED << decls, cmd_args, funcs, scope, ctl, ret, phase, err, heap, out >>
    /\ UNCHANGED << source, position, tokens, parsed >>

-----------------------------------------------------------------------------
(* The interpreter on every program and every argument list.               *)

NoParse == [st |-> "none", pos |-> 0, val |-> << >>, e |-> NoParseError]

FrontIdle ==
    /\ source = << >>
    /\ position = 0
    /\ tokens = << >>
    /\ lex = "off"
    /\ parsed = NoParse

\* Interpreter::new()
Init ==
    /\ decls \in Programs
    /\ cmd_args \in CmdArgs
    /\ funcs = << >>
    /\ scope = << >>
    /\ ctl = << >>
    /\ ret = NoRet
    /\ phase = "new"
    /\ err = NoErr
    /\ heap = << >>
    /\ out = << >>
    /\ diag = NoDiag
    /\ FrontIdle

Next ==
    \/ DefineBuiltins
    \/ InterpretDecl
    \/ CallMain
    \/ InterpretOk
    \/ InterpretErr
    \/ Report
    \/ BodyNext
    \/ BodyReturn
    \/ BodyContinue
    \/ BodyEnd
    \/ PropagateErr
    \/ CallFnReturn
    \/ StmtEvaluate
    \/ IfCond
    \/ IfBody
    \/ WhileCond
    \/ WhileBody
    \/ ReturnValue
    \/ AssignValue
    \/ DeclValue
    \/ FnCallLookup
    \/ ElemEvaluate
    \/ ElemValue
    \/ CallFn
    \/ FnCallOk
    \/ ObjectLiteralValue
    \/ ListLiteralValue
    \/ EvalIdentfier
    \/ EvalLiteral
    \/ EvalBinary
    \/ EvalBinaryRight
    \/ EvalBinaryOperate
    \/ EvalUnary
    \/ EvalUnaryOperate
    \/ EvalFieldAccess

Spec == Init /\ [][Next]_vars

\* The interpreter never waits: it takes its next step as long as it has one.
FairSpec == Spec /\ WF_vars(Next)

-----------------------------------------------------------------------------
(* Properties of the scope chain and of calls.                             *)

Bound(sc, name) == \E k \in DOMAIN sc : name \in DOMAIN sc[k]
BoundNames(sc) == UNION {DOMAIN sc[k] : k \in DOMAIN sc}

\* The innermost frame of sc that binds name (0: none), by its definition.
Binder(sc, name) ==
    IF Bound(sc, name)
    THEN CHOOSE k \in DOMAIN sc :
            /\ name \in DOMAIN sc[k]
            /\ \A j \in DOMAIN sc : j > k => name \notin DOMAIN sc[j]
    ELSE 0

\* The innermost open user-defined call, and the depth of the chain when it
\* was made: the frames above that depth are the frames of the callee.
Callee == CHOOSE c \in DOMAIN ctl :
            /\ ctl[c].k = "call_fn"
            /\ \A j \in DOMAIN ctl : j > c => ctl[j].k # "call_fn"
CallerDepth == Len(ctl[Callee].entry)

\* name is bound in a frame of the caller and in no frame of the callee.
CallerOnly(name) ==
    /\ Running
    /\ Depth >= 1
    /\ \E k \in 1..CallerDepth : name \in DOMAIN scope[k]
    /\ \A k \in DOMAIN scope : k > CallerDepth => name \notin DOMAIN scope[k]

\* evaluate is about to read the identifier; interpret_stmt is about to
\* assign, to declare.
ReadsName == InExpr("Identfier") /\ Fresh
Assigns == InStmt("Assign") /\ AtPlace(1) /\ ret.k = "Value"
Declares == InStmt("Decl") /\ AtPlace(1) /\ ret.k = "Value"

\* C1 (as claimed): name resolution is lexical.  While the body of a
\* user-defined function runs, reading an identifier that is bound only in
\* frames of the caller fails with undefined identifier, and assigning to it
\* fails and leaves the caller's variable as it was.
C1_LexicalResolution ==
    [][ /\ (ReadsName /\ CallerOnly(Top.node.name))
            => ret' = Failure(UndefinedIdentifier(Top.node.name))
        /\ (Assigns /\ CallerOnly(Top.node.var))
            => (ret'.k = "Err" /\ scope' = scope) ]_vars

\* Two chains have the same frames holding the same names.
SameFrames(a, b) ==
    /\ Len(a) = Len(b)
    /\ \A k \in DOMAIN a : DOMAIN a[k] = DOMAIN b[k]

\* The top invocation hands a result that is no failure to its caller.
ExitsNormally == Running /\ ctl' = Below /\ ret'.k \in {"Value", "Return", "None"}

\* C2: when a user-defined call (call_fn) or an if body, while body or
\* function body (interpret_body) finishes without a failure, by falling off
\* its end or by a return, the scope chain has the depth it had on entry and
\* every frame holds the names it held on entry: no frame leaks.
C2_ChainRestoredOnExit ==
    [][ (Running /\ Top.k \in {"interpret_body", "call_fn"} /\ ExitsNormally)
            => SameFrames(scope', Top.entry) ]_vars

\* A call returned 2 to its caller in main, by a return inside an if body
\* inside a while body, and the chain is main's two frames again.
C2_Witness ==
    /\ decls = ProgNestedReturn
    /\ InCall
    /\ AtPlace(2)
    /\ ret = Value(Number(2))
    /\ Len(scope) = 2

\* C3: when a frame is popped, every name bound in it and in no enclosing
\* frame is unresolvable; a name becomes resolvable only by a declaration of
\* it (a let, or the binding of a parameter); and reading a name that no
\* frame binds fails with undefined identifier.
C3_PoppedNamesUnresolvable ==
    [][ /\ Len(scope') < Len(scope)
            => \A n \in DOMAIN scope[Len(scope)] :
                  ~Bound(SubSeq(scope, 1, Len(scope) - 1), n)
                      => ~Scope_get(scope', n).some
        /\ \A n \in BoundNames(scope') :
              (Scope_get(scope', n).some /\ ~Scope_get(scope, n).some)
                  => \/ Declares /\ Top.node.var = n
                     \/ Len(ctl') > Len(ctl) /\ ctl'[Len(ctl')].k = "interpret_body"
                        /\ Len(ctl') >= 2 /\ ctl'[Len(ctl') - 1].k = "call_fn"
                        /\ n \in DOMAIN scope'[Len(scope') - 1]
        /\ (ReadsName /\ scope # << >> /\ ~Bound(scope, Top.node.name))
            => ret' = Failure(UndefinedIdentifier(Top.node.name)) ]_vars

\* y was declared in the first if body of ProgShadow; the read of y in the
\* later if body failed.
C3_Witness ==
    /\ decls = ProgShadow
    /\ ret = Failure(UndefinedIdentifier("y"))
    /\ out = << << "2", "\n" >>, << "1", "\n" >> >>

\* C4: an assignment to a name that some frame binds replaces the value in
\* the innermost frame binding it and changes nothing else in any frame; an
\* assignment to a name that no frame binds fails (interpret_stmt returns
\* the NoScope error) and leaves every frame unchanged.  No assignment adds
\* a binding.
C4_SetNeverCreates ==
    [][ Assigns =>
          LET n == Top.node.var
              k == Binder(scope, n)
          IN  /\ SameFrames(scope', scope)
              /\ k # 0 =>
                    /\ ret' = BodyResult_None
                    /\ scope'[k][n] = ret.v
                    /\ \A j \in DOMAIN scope : \A m \in DOMAIN scope[j] :
                          (j # k \/ m # n) => scope'[j][m] = scope[j][m]
              /\ k = 0 => (ret' = Failure(NoScope) /\ scope' = scope) ]_vars

\* The assignment y = 2 of ProgAssignAfterBlock, made after the while body
\* that declared y was popped, failed.
C4_Witness ==
    /\ decls = ProgAssignAfterBlock
    /\ ret = Failure(NoScope)
    /\ At("interpret_body")
    /\ Len(scope) = 2
    /\ ~Bound(scope, "y")

\* C5: a let inserts or overwrites a binding in the innermost frame only:
\* every outer frame and every other binding of the innermost frame is
\* unchanged, and get of the name gives the new value.  A pop removes the
\* innermost frame and nothing else, so get gives the outer value again.
C5_DeclareInnermostOnly ==
    [][ /\ (Declares /\ scope # << >>) =>
              LET n == Top.node.var
                  top == Len(scope)
              IN  /\ Len(scope') = top
                  /\ \A j \in 1..(top - 1) : scope'[j] = scope[j]
                  /\ DOMAIN scope'[top] = DOMAIN scope[top] \cup {n}
                  /\ \A m \in DOMAIN scope[top] : m # n => scope'[top][m] = scope[top][m]
                  /\ Scope_get(scope', n) = Some(ret.v)
        /\ Len(scope') < Len(scope) =>
              /\ Len(scope') = Len(scope) - 1
              /\ \A j \in DOMAIN scope' : scope'[j] = scope[j]
              /\ \A n \in BoundNames(scope') :
                    Scope_get(scope', n) = Some(scope[Binder(scope', n)][n]) ]_vars

\* In ProgShadow the if body declared its own x = 2 over main's x = 1.
C5_Witness ==
    /\ decls = ProgShadow
    /\ Len(scope) = 3
    /\ "x" \in DOMAIN scope[3]
    /\ scope[3]["x"] = Number(2)
    /\ scope[2]["x"] = Number(1)
    /\ Scope_get(scope, "x") = Some(Number(2))

\* call_fn is about to be invoked: by interpret on main, or by a call
\* statement or call expression whose arguments are all evaluated.
MainCall == phase = "decls" /\ Top.i = Len(decls) /\ "main" \in DOMAIN funcs
ReadyCall == InCall /\ AtPlace(1) /\ Fresh /\ Len(Top.acc) = Len(Top.node.args)
CalledFn == IF MainCall THEN funcs["main"] ELSE funcs[Top.node.name]
CallArgs == IF MainCall THEN cmd_args ELSE Top.acc
Mismatch == (MainCall \/ ReadyCall) /\ Len(CallArgs) # param_count(CalledFn)

\* C6: a call with a number of arguments other than the arity fails with the
\* argument-count mismatch before anything of the callee happens: no frame
\* is pushed, no parameter is bound, no body is entered, nothing is written.
C6_ArityCheckedFirst ==
    [][ Mismatch =>
          /\ ret'.k = "Err"
          /\ ret'.e.kind = "InvalidArgCount"
          /\ scope' = scope
          /\ heap' = heap
          /\ out' = out
          /\ Len(ctl') = Len(ctl) ]_vars

\* f(x, 2) in ProgTooManyArgs failed with the mismatch; main's frames are as
\* they were.
C6_Witness ==
    /\ decls = ProgTooManyArgs
    /\ InCall
    /\ ret.k = "Err"
    /\ ret.e.kind = "InvalidArgCount"
    /\ Len(scope) = 2
    /\ DOMAIN scope[2] = {"x"}

\* C7 (as claimed): the mismatch carries (expected, actual): its first
\* component is the arity of the callee and its second the number of
\* arguments supplied, and the diagnostic names them in that order.
C7_ExpectedThenActual ==
    [][ Mismatch =>
          /\ ret'.e = InvalidArgCount(param_count(CalledFn), Len(CallArgs))
          /\ report(ret'.e).args =
                << NumberText(param_count(CalledFn)), NumberText(Len(CallArgs)) >> ]_vars

\* What println! writes for a text; a is a prefix of b.
Line(text) == text \o << "\n" >>
IsPrefix(a, b) == Len(a) <= Len(b) /\ a = SubSeq(b, 1, Len(a))

\* C8: a return statement gives Return with the value of its expression;
\* from then on every enclosing invocation (interpret_body, if, while) hands
\* that same Return to its caller and does nothing else, until call_fn turns
\* it into the value of the call; a body that ends without a return makes
\* the value of the call Null.  So ProgNestedReturn, whose function returns
\* from an if body inside a while body, writes the two returned values and
\* never the 9 that follows the loop.
C8_FirstReturnIsCallValue ==
  /\ [](decls = ProgNestedReturn /\ cmd_args = << >>
          => /\ IsPrefix(out, << Line(<< "2" >>), Line(<< "1" >>) >>)
             /\ phase = "done" => Len(out) = 2)
  /\
    [][ /\ (InStmt("Return") /\ AtPlace(1) /\ ret.k = "Value")
            => (ctl' = Below /\ ret' = BodyResult_Return(ret.v))
        /\ (Running /\ ret.k = "Return")
            => /\ ctl' = Below
               /\ out' = out
               /\ heap' = heap
               /\ ret' = IF Top.k = "call_fn" THEN Value(ret.v) ELSE ret
        /\ (At("call_fn") /\ ret.k = "None")
            => (ctl' = Below /\ ret' = Value(Null)) ]_vars

\* The return of find(1), executed in an if body inside the while body, has
\* reached the while statement.
C8_Witness ==
    /\ decls = ProgNestedReturn
    /\ InStmt("While")
    /\ ret = BodyResult_Return(Number(2))
    /\ Depth = 2

WhileOutput == << Line(<< "0" >>), Line(<< "1" >>), Line(<< "2" >>) >>
RunsWhile == decls = ProgWhile /\ cmd_args = << >>

\* C9: a while statement evaluates its condition before every run of its
\* body, runs the body when the condition is true, ends with None at the
\* first false condition and with the Return at the first return of its
\* body.  ProgWhile writes 0, 1, 2 in that order, each on its line, and
\* nothing else, and then ends normally.
C9_WhileLoop ==
    /\ [][ /\ (InStmt("While") /\ AtPlace(0) /\ Fresh)
               => ctl' = Append(Wait(1), Frame("evaluate", Top.node.cond))
           /\ (InStmt("While") /\ AtPlace(1) /\ ret.k = "Value" /\ ret.v.t = "Boolean")
               => IF ret.v.b
                  THEN /\ ctl' = Append(Wait(2), interpret_body_frame(Top.node.body, scope))
                       /\ scope' = push_scope(scope)
                  ELSE ctl' = Below /\ ret' = BodyResult_None /\ scope' = scope
           /\ (InStmt("While") /\ AtPlace(2) /\ ret.k = "None")
               => (ctl' = Wait(0) /\ ret' = NoRet)
           /\ (InStmt("While") /\ AtPlace(2) /\ ret.k = "Return")
               => (ctl' = Below /\ ret' = ret) ]_vars
    /\ [](RunsWhile => IsPrefix(out, WhileOutput))
    /\ [](RunsWhile /\ phase \in {"done", "failed", "panicked"}
              => phase = "done" /\ out = WhileOutput)
    /\ ((RunsWhile /\ phase = "new") ~> (phase = "done"))

\* ProgWhile ended normally, having written the three lines.
C9_Witness ==
    /\ RunsWhile
    /\ phase = "done"
    /\ out = WhileOutput
    /\ scope = << >>

\* call_fn is about to run the builtin called name on evaluated arguments.
BuiltinCall(name) ==
    /\ ReadyCall
    /\ funcs[Top.node.name].kind = "Builtin"
    /\ funcs[Top.node.name].native = name
    /\ Len(Top.acc) = funcs[Top.node.name].param_count

ListArg == Top.acc[1].t = "List"
ItemsOf(hp, v) == hp[v.ref].items

\* C11: for every list L and value x, len applied to the result of
\* append(L, x) is the length L had before the call plus 1.
C11_LenOfAppendResult ==
    [][ BuiltinCall("append") /\ ListArg =>
          /\ ret'.k = "Value"
          /\ \A o \in len_body(<< ret'.v >>, heap') :
                o.res = Ok(Number(Len(ItemsOf(heap, Top.acc[1])) + 1)) ]_vars

AliasOutput == << Line(<< "2" >>), Line(<< "9" >>), Line(<< "3" >>), Line(<< "a" >>),
                 Line(<< "1" >>) >>

\* The step evaluates a list or object literal, or applies + or - to objects:
\* the only places of the source that make a new container.
MakesContainer ==
    /\ Running
    /\ Top.k = "evaluate"
    /\ Top.node.t \in {"ListLiteral", "ObjectLiteral", "Binary"}

\* C12: a list value is a handle.  Reading a variable that holds a list, and
\* get of a nested list, give the same handle and copy no contents; append
\* and set through a handle change the one container the handle names, which
\* every other handle to it (made by assignment, by let, by passing it as an
\* argument, or by get) reads with len and get; no step other than a literal
\* or an object operation makes a container.  Strings and numbers are
\* copied by value.  So ProgAlias writes 2, 9, 3, a, 1.
C12_HandlesAlias ==
    /\ [](decls = ProgAlias /\ cmd_args = << >> =>
            /\ IsPrefix(out, AliasOutput)
            /\ phase \in {"done", "failed", "reported", "panicked"} =>
                  phase = "done" /\ out = AliasOutput)
    /\ [][ /\ Len(heap') >= Len(heap)
           /\ Len(heap') > Len(heap) => MakesContainer
           /\ \A h \in DOMAIN heap :
                 heap'[h] # heap[h] =>
                    /\ BuiltinCall("append") \/ BuiltinCall("set")
                    /\ ListArg
                    /\ h = Top.acc[1].ref
           /\ BuiltinCall("append") /\ ListArg =>
                 ItemsOf(heap', Top.acc[1]) =
                    Append(ItemsOf(heap, Top.acc[1]), Top.acc[2])
           /\ ( /\ BuiltinCall("get") /\ ListArg /\ Top.acc[2].t = "Number"
                /\ InBounds(ItemsOf(heap, Top.acc[1]), Top.acc[2].n) ) =>
                 ret' = Value(ItemsOf(heap, Top.acc[1])[Top.acc[2].n + 1])
           /\ ( /\ InExpr("Identfier") /\ Fresh
                /\ ret'.k = "Value" /\ ret'.v.t = "List" ) =>
                 /\ Scope_get(scope, Top.node.name).v = ret'.v
                 /\ heap' = heap ]_vars

\* ProgAlias has run to its end.
C12_Witness ==
    /\ decls = ProgAlias
    /\ cmd_args = << >>
    /\ phase = "done"
    /\ out = AliasOutput

NumberIndex == Top.acc[2].t = "Number"

\* C13: get(L, i) on a list and a number gives element i when
\* 0 <= i < len(L); for every other i, negative ones included, it fails with
\* the index-out-of-bounds condition carrying (len(L), i): it never clamps
\* the index and never gives a default value.  In both cases L and every
\* other container are left as they were and nothing is written.  So
\* ProgGetNegative writes 2 and ends with the failure carrying (2, -1).
C13_GetChecksBounds ==
    /\ [](decls = ProgGetNegative /\ cmd_args = << >> =>
            /\ IsPrefix(out, << Line(<< "2" >>) >>)
            /\ phase \in {"done", "failed", "reported", "panicked"} =>
                  /\ phase \in {"failed", "reported"}
                  /\ err = IndexOutOfBounds(2, -1))
    /\ [][ BuiltinCall("get") /\ ListArg /\ NumberIndex =>
             /\ heap' = heap
             /\ out' = out
             /\ scope' = scope
             /\ ret' = IF InBounds(ItemsOf(heap, Top.acc[1]), Top.acc[2].n)
                       THEN Value(ItemsOf(heap, Top.acc[1])[Top.acc[2].n + 1])
                       ELSE Failure(IndexOutOfBounds(Len(ItemsOf(heap, Top.acc[1])),
                                                     Top.acc[2].n)) ]_vars

\* ProgGetNegative has failed at get(l, 0 - 1), after get(l, 1) gave 2.
C13_Witness ==
    /\ decls = ProgGetNegative
    /\ cmd_args = << >>
    /\ phase = "reported"
    /\ out = << Line(<< "2" >>) >>
    /\ err = IndexOutOfBounds(2, -1)

SetPastOutput == << Line(<< "[", " ", "1", ",", " ", "7", " ", "]" >>) >>

\* C14: set(L, i, v) on a list and a number with 0 <= i < len(L) replaces
\* element i by v and changes nothing else: the length and every other
\* element of L, and every other container, stay as they were.  For every
\* other i it fails with the index-out-of-bounds condition carrying
\* (len(L), i) and leaves L unchanged: it never grows the list.  So
\* ProgSetPast writes [ 1, 7 ] and ends with the failure carrying (2, 2).
C14_SetReplacesOneElement ==
    /\ [](decls = ProgSetPast /\ cmd_args = << >> =>
            /\ IsPrefix(out, SetPastOutput)
            /\ phase \in {"done", "failed", "reported", "panicked"} =>
                  /\ phase \in {"failed", "reported"}
                  /\ out = SetPastOutput
                  /\ err = IndexOutOfBounds(2, 2)
                  /\ heap = << ListCell(<< Number(1), Number(7) >>) >>)
    /\ [][ BuiltinCall("set") /\ ListArg /\ NumberIndex =>
             /\ out' = out
             /\ scope' = scope
             /\ IF InBounds(ItemsOf(heap, Top.acc[1]), Top.acc[2].n)
                THEN /\ ret' = Value(Null)
                     /\ heap' = [heap EXCEPT ![Top.acc[1].ref].items =
                                    [@ EXCEPT ![Top.acc[2].n + 1] = Top.acc[3]]]
                ELSE /\ ret' = Failure(IndexOutOfBounds(Len(ItemsOf(heap, Top.acc[1])),
                                                        Top.acc[2].n))
                     /\ heap' = heap ]_vars

\* ProgSetPast has failed at set(l, 2, 9), after set(l, 1, 7) took effect.
C14_Witness ==
    /\ decls = ProgSetPast
    /\ cmd_args = << >>
    /\ phase = "reported"
    /\ out = SetPastOutput
    /\ err = IndexOutOfBounds(2, 2)
    /\ heap = << ListCell(<< Number(1), Number(7) >>) >>

\* The step applies + or - to two objects.
ObjectOp ==
    /\ InExpr("Binary")
    /\ AtPlace(2)
    /\ ret.k = "Value"
    /\ Top.node.op \in {"Plus", "Minus"}
    /\ Top.acc[1].t = "Object"
    /\ ret.v.t = "Object"

FieldsOf(hp, v) == hp[v.ref].fields

\* C15: for objects A and B, A + B is a new object whose keys are those of A
\* and of B, a key of both having the value it has in B, and A - B is a new
\* object with the entries of A whose keys B does not hold.  The operation
\* changes neither A nor B, also when A and B are the same object, and no
\* later step changes the fields of an object, so nothing done with the
\* result shows through A or B.
C15_ObjectPlusMinus ==
    [][ /\ \A h \in DOMAIN heap :
              heap[h].kind = "Object" => h \in DOMAIN heap' /\ heap'[h] = heap[h]
        /\ ObjectOp =>
              LET A == FieldsOf(heap, Top.acc[1])
                  B == FieldsOf(heap, ret.v)
                  R == FieldsOf(heap', ret'.v)
              IN  /\ ret'.k = "Value"
                  /\ ret'.v = Object(Len(heap) + 1)
                  /\ ret'.v.ref \notin {Top.acc[1].ref, ret.v.ref}
                  /\ SubSeq(heap', 1, Len(heap)) = heap
                  /\ Len(heap') = Len(heap) + 1
                  /\ heap'[Len(heap')].kind = "Object"
                  /\ IF Top.node.op = "Plus"
                     THEN /\ DOMAIN R = DOMAIN A \cup DOMAIN B
                          /\ \A k \in DOMAIN B : R[k] = B[k]
                          /\ \A k \in DOMAIN A \ DOMAIN B : R[k] = A[k]
                     ELSE /\ DOMAIN R = DOMAIN A \ DOMAIN B
                          /\ \A k \in DOMAIN R : R[k] = A[k] ]_vars

\* ProgObject has added {a: 1, b: 2} and {b: 3}: the new object holds a: 1
\* and b: 3.
C15_Witness ==
    /\ decls = ProgObject
    /\ Len(heap) >= 3
    /\ heap[1].fields = insert_fields(<< >>, << << << "a" >>, 0 >>, << << "b" >>, 0 >> >>,
                                      << Number(1), Number(2) >>)
    /\ heap[3].fields = insert_fields(<< >>, << << << "a" >>, 0 >>, << << "b" >>, 0 >> >>,
                                      << Number(1), Number(3) >>)

\* The step applies a binary operator to two numbers.
NumberOp ==
    /\ InExpr("Binary")
    /\ AtPlace(2)
    /\ ret.k = "Value"
    /\ Top.acc[1].t = "Number"
    /\ ret.v.t = "Number"

\* The 32-bit two's-complement result of a op b.
Wrapped(op, a, b) ==
    CASE op = "Plus" -> WrappingAdd(a, b)
      [] op = "Minus" -> WrappingSub(a, b)
      [] OTHER -> WrappingMul(a, b)

\* C16: for all 32-bit integers a and b, a + b, a - b and a * b give the
\* 32-bit two's-complement result, also when the exact result is out of
\* range; a / b with b = 0 ends in a failure and never gives a value.
C16_TwosComplementArithmetic ==
    [][ NumberOp =>
          /\ Top.node.op \in {"Plus", "Minus", "Star"} =>
                /\ phase' = "running"
                /\ ret' = Value(Number(Wrapped(Top.node.op, Top.acc[1].n, ret.v.n)))
          /\ (Top.node.op = "Slash" /\ ret.v.n = 0) => ret'.k # "Value" ]_vars

BuiltinArity ==
    ("print" :> 1) @@ ("prompt" :> 1) @@ ("parseint" :> 1) @@ ("tostring" :> 1) @@
    ("len" :> 1) @@ ("get" :> 2) @@ ("set" :> 3) @@ ("append" :> 2)

DeclaredNames == {decls[j].name : j \in DOMAIN decls}

\* The last declaration of name in the program.
LastDecl(name) ==
    decls[CHOOSE j \in DOMAIN decls :
             /\ decls[j].name = name
             /\ \A i \in DOMAIN decls : decls[i].name = name => i <= j]

\* Every declaration is processed: main is about to be called, or was.
Started ==
    \/ phase \in {"running", "done", "failed", "reported"}
    \/ phase = "decls" /\ Top.i = Len(decls)

\* C17: when startup has processed the declarations, the function table
\* holds exactly one entry for every builtin name and every declared name:
\* a declared name has the parameters and body of its last declaration
\* (also when the name is that of a builtin, which it replaces), every other
\* builtin name has its builtin.  From the call of main on, no step adds,
\* removes or replaces an entry.  So ProgDuplicate writes 2 and 7.
C17_FunctionTable ==
    /\ [](Started =>
            /\ DOMAIN funcs = DOMAIN BuiltinArity \cup DeclaredNames
            /\ \A name \in DeclaredNames :
                  funcs[name] = Defined(LastDecl(name).params, LastDecl(name).body)
            /\ \A name \in DOMAIN BuiltinArity \ DeclaredNames :
                  funcs[name] = BuiltinFn(name, BuiltinArity[name]))
    /\ [][Started => funcs' = funcs]_vars
    /\ [](decls = ProgDuplicate /\ cmd_args = << >> /\ phase = "done" =>
            out = << Line(<< "2" >>), Line(<< "7" >>) >>)

\* ProgDuplicate, which declares f twice and a function named len, has run.
C17_Witness ==
    /\ decls = ProgDuplicate
    /\ cmd_args = << >>
    /\ phase = "done"
    /\ out = << Line(<< "2" >>), Line(<< "7" >>) >>
    /\ funcs["len"].kind = "Defined"

\* C18: a runtime failure aborts the run.  While a failure is on its way up,
\* every step only returns from the innermost open invocation with that same
\* failure: no invocation is opened (no statement runs, no builtin is
\* called), nothing is written and no container changes; at the top,
\* interpret returns that failure, which is then reported.  A run ends as
\* failed only this way.  So ProgErrInCall, whose failure comes up through a
\* call and an if body, writes nothing and reports the undefined identifier.
C18_FailureAborts ==
    /\ [][ Running /\ ret.k = "Err" =>
             /\ out' = out
             /\ heap' = heap
             /\ funcs' = funcs
             /\ Len(ctl') < Len(ctl)
             /\ ctl' = SubSeq(ctl, 1, Len(ctl'))
             /\ \/ phase' = "running" /\ ret' = ret
                \/ phase' = "failed" /\ ctl' = << >> /\ err' = ret.e ]_vars
    /\ [][ phase' = "failed" /\ phase # "failed" =>
             ret.k = "Err" /\ err' = ret.e ]_vars
    /\ [][ phase = "failed" =>
             /\ phase' = "reported"
             /\ diag' = report(err)
             /\ err' = err
             /\ out' = out ]_vars
    /\ [](decls = ProgErrInCall /\ cmd_args = << >> =>
            /\ out = << >>
            /\ phase \in {"done", "failed", "reported", "panicked"} =>
                  /\ phase \in {"failed", "reported"}
                  /\ err = UndefinedIdentifier("y"))

\* ProgErrInCall has ended with the failure of the read of y in f reported.
C18_Witness ==
    /\ decls = ProgErrInCall
    /\ cmd_args = << >>
    /\ phase = "reported"
    /\ err = UndefinedIdentifier("y")
    /\ diag = report(UndefinedIdentifier("y"))
    /\ out = << >>

\* C19: parseint(s) gives the Number a String s denotes when s is a base-10
\* integer in range; for every other argument (a value that is no String, a
\* String that is no such integer) it fails with the invalid-argument-type
\* runtime condition, which travels and is reported like every other
\* runtime failure.
C19_ParseintFailsWithRuntimeError ==
    [][ BuiltinCall("parseint") =>
          /\ phase' = "running"
          /\ out' = out
          /\ heap' = heap
          /\ IF Top.acc[1].t = "String" /\ ParseI32(Top.acc[1].s).some
             THEN ret' = Value(Number(ParseI32(Top.acc[1].s).v))
             ELSE ret'.k = "Err" /\ ret'.e.kind = "InvalidArgumentType" ]_vars

\* call_fn is about to enter a user-defined function with as many arguments
\* as it has parameters.
EntersFn ==
    /\ MainCall \/ ReadyCall
    /\ CalledFn.kind = "Defined"
    /\ Len(CallArgs) = param_count(CalledFn)

\* An if or while statement is about to enter its body.
EntersBlock ==
    /\ InStmt("If") \/ InStmt("While")
    /\ AtPlace(1)
    /\ ret = Value(Boolean(TRUE))

\* interpret_stmt is at a top-level statement of a function body.
FnBodyLevel ==
    /\ Running
    /\ Len(ctl) >= 3
    /\ Top.k = "interpret_stmt"
    /\ ctl[Len(ctl) - 1].k = "interpret_body"
    /\ ctl[Len(ctl) - 2].k = "call_fn"

\* interpret_stmt is about to run a top-level statement of a function body.
FnBodyStmt == FnBodyLevel /\ Top.i = 0 /\ Fresh

\* C22 as stated: entering a user-defined call adds exactly one frame, and
\* entering an if or while body adds exactly one frame: while the top-level
\* statements of a function body run, the chain is one frame deeper than at
\* the call site, and that one frame holds the parameters and takes the
\* body's let declarations.
C22_OneFramePerCall ==
    /\ [][ /\ EntersFn =>
                /\ Len(scope') = Len(scope) + 1
                /\ \A j \in 1..Len(CalledFn.params) :
                      CalledFn.params[j] \in DOMAIN scope'[Len(scope')]
           /\ EntersBlock => Len(scope') = Len(scope) + 1 ]_vars
    /\ [](FnBodyStmt => Len(scope) = Len(ctl[Len(ctl) - 2].entry) + 1)

\* C22 as the code has it: entering a user-defined call adds two frames, one
\* pushed by call_fn, which holds the parameters, and on top of it the one
\* interpret_body pushes for the function body, empty at entry, which takes
\* the body's let declarations; entering an if or while body adds exactly
\* one frame.  While the top-level statements of a function body run, the
\* chain is two frames deeper than at the call site, and a let of such a
\* statement binds its name in the innermost frame and leaves the frame of
\* the parameters as it was.
C22_TwoFramesPerCall ==
    /\ [][ /\ EntersFn =>
                /\ Len(scope') = Len(scope) + 2
                /\ SubSeq(scope', 1, Len(scope)) = scope
                /\ DOMAIN scope'[Len(scope) + 1] =
                      {CalledFn.params[j] : j \in 1..Len(CalledFn.params)}
                /\ \A j \in 1..Len(CalledFn.params) :
                      Scope_get(scope', CalledFn.params[j]).some
                /\ scope'[Len(scope) + 2] = Scope_new
           /\ EntersBlock =>
                /\ Len(scope') = Len(scope) + 1
                /\ SubSeq(scope', 1, Len(scope)) = scope
                /\ scope'[Len(scope')] = Scope_new
           /\ (FnBodyLevel /\ Declares) =>
                /\ Len(scope') = Len(ctl[Len(ctl) - 2].entry) + 2
                /\ Top.node.var \in DOMAIN scope'[Len(scope')]
                /\ scope'[Len(scope') - 1] = scope[Len(scope) - 1] ]_vars
    /\ [](FnBodyStmt => Len(scope) = Len(ctl[Len(ctl) - 2].entry) + 2)

\* In ProgAdd the return statement of add is about to run: main's call site
\* has two frames, the chain has four, the third holding a and b.
C22_Witness ==
    /\ decls = ProgAdd
    /\ FnBodyStmt
    /\ Len(ctl[Len(ctl) - 2].entry) = 2
    /\ Len(scope) = 4
    /\ DOMAIN scope[3] = {"a", "b"}
    /\ scope[4] = Scope_new

\* interpret_body or call_fn is about to call pop_scope.
Pops ==
    \/ At("interpret_body") /\ ret.k = "Return"
    \/ At("interpret_body") /\ Fresh /\ Top.i > Len(Top.node.body)
    \/ At("call_fn") /\ ret.k \in {"Return", "None", "Err"}

\* A statement is run, or an identifier is read.
UsesScope == At("interpret_stmt") \/ InExpr("Identfier")

\* C25: pop is never called without a matching push.  In every run of every
\* program no call of pop_scope fails with scope underflow: each finds a
\* frame and removes exactly one.  The chain is empty until main is called
\* and again when main has returned normally, and it holds at least one
\* frame while main runs, so whenever a statement runs or an identifier is
\* read, declared or assigned.
C25_PopMatchesPush ==
    /\ [][ Pops =>
             /\ pop_scope(scope).ok
             /\ Len(scope) >= 1
             /\ scope' = SubSeq(scope, 1, Len(scope) - 1)
             /\ ret' # Failure(NoScope) \/ ret = Failure(NoScope) ]_vars
    /\ [](phase \in {"new", "decls", "done"} => scope = << >>)
    /\ [](At("interpret") /\ ret.k = "Value" => scope = << >>)
    /\ [](Running /\ Len(ctl) >= 2 => scope # << >>)
    /\ [](UsesScope => scope # << >>)

\* ProgRecursion, whose calls nest three deep, has ended normally with the
\* chain empty again.
C25_Witness ==
    /\ decls = ProgRecursion
    /\ cmd_args = << >>
    /\ phase = "done"
    /\ out # << >>
    /\ scope = << >>

\* A call has just been reached; a call waits for its next argument.
CallBegins == InCall /\ Fresh /\ AtPlace(0)
ArgsPending == InCall /\ AtPlace(1) /\ Fresh /\ Len(Top.acc) < Len(Top.node.args)
Ended == phase \in {"done", "failed", "reported", "panicked"}

\* C26: in every call, statement or expression, the callee is looked up
\* before any argument is evaluated: a call of an undefined function fails
\* with the undefined identifier and none of its arguments is evaluated.
\* The arguments are then evaluated from left to right, and the first one
\* that fails ends the call with its failure.  The argument-count mismatch
\* arises only when every argument has been evaluated, so what the arguments
\* wrote is written when the mismatch is reported.
C26_LookupArgsThenArity ==
    /\ [](InCall /\ AtPlace(0) => Top.acc = << >>)
    /\ [](InCall /\ ~AtPlace(0) => Top.node.name \in DOMAIN funcs)
    /\ [][ CallBegins =>
             /\ out' = out
             /\ heap' = heap
             /\ scope' = scope
             /\ IF Top.node.name \in DOMAIN funcs
                THEN ctl' = Wait(1) /\ ret' = NoRet
                ELSE /\ ctl' = Below
                     /\ ret' = Failure(UndefinedIdentifier(Top.node.name)) ]_vars
    /\ [][ ArgsPending =>
             /\ ctl' = Append(ctl, Frame("evaluate", Top.node.args[Len(Top.acc) + 1]))
             /\ ret' = NoRet
             /\ out' = out ]_vars
    /\ [][ InCall /\ AtPlace(1) /\ ret.k = "Value" =>
             /\ ctl' = [ctl EXCEPT ![Len(ctl)].acc = Append(@, ret.v)]
             /\ ret' = NoRet
             /\ out' = out ]_vars
    /\ [][ InCall /\ AtPlace(1) /\ ret.k = "Err" =>
             /\ ctl' = Below
             /\ ret' = ret
             /\ out' = out
             /\ heap' = heap ]_vars
    /\ [][ ret.k # "Err" /\ ret'.k = "Err" /\ ret'.e.kind = "InvalidArgCount" =>
             \/ MainCall
             \/ ReadyCall /\ Len(Top.acc) = Len(Top.node.args) ]_vars
    /\ [](decls = ProgUndefinedFn /\ cmd_args = << >> =>
            /\ out = << >>
            /\ Ended => err = UndefinedIdentifier("g"))
    /\ [](decls = ProgArgFails /\ cmd_args = << >> =>
            /\ IsPrefix(out, << Line(<< "1" >>) >>)
            /\ Ended => err = UndefinedIdentifier("y") /\ out = << Line(<< "1" >>) >>)
    /\ [](decls = ProgArgsThenCount /\ cmd_args = << >> =>
            /\ IsPrefix(out, << Line(<< "1" >>), Line(<< "2" >>) >>)
            /\ Ended => /\ err = InvalidArgCount(2, 0)
                        /\ out = << Line(<< "1" >>), Line(<< "2" >>) >>)

\* f(print(1), print(2)) in ProgArgsThenCount has failed with the mismatch
\* and both arguments have written their line.
C26_Witness ==
    /\ decls = ProgArgsThenCount
    /\ cmd_args = << >>
    /\ InCall
    /\ ret.k = "Err"
    /\ ret.e.kind = "InvalidArgCount"
    /\ Len(Top.acc) = 2
    /\ out = << Line(<< "1" >>), Line(<< "2" >>) >>

-----------------------------------------------------------------------------
(* The front end of main on every source text: Lexer::new(source),         *)
(* scan_tokens, Parser::new(tokens).parse(), and the hand-over of the      *)
(* declarations.                                                           *)

SrcWhile == Chars("fn main(){ let i = 0; while i < 3 { print(i); i = i + 1; } }")
SrcAssign == Chars("fn main(){ let x = 1; x = x + 1; print(x); }")
SrcAdd == Chars("fn add(a,b){ return a+b; } fn main(){ print(add(2,3)); }")
SrcIfFalse == Chars("fn main(){ if false { print(\"no\"); } }")
SrcNull == Chars("fn main(){ let x = null; }")
SrcObject == Chars("fn main(){\n\tlet o = { a: 1, b: 2 * 3 - 4 < 5 };\n\treturn;\n}")
SrcInvalidChar == Chars("fn main(){ let x = 1 % 2; }")
SrcNonAscii == Chars("fn main(){ print(\"") \o << "U+00E9" >> \o Chars("\"); }")
SrcUnterminated == Chars("fn main(){ print(\"abc")
SrcStruct == Chars("struct P {}")
SrcMissingBrace == Chars("fn main(){ f(1, x)")
SrcEmpty == << >>
SrcLoneQuote == Chars("fn main(){ print(\"")
SrcLongNumber == Chars("fn main(){ print(340282366920938463463); }")
SrcReturnNull == Chars("fn main(){ return null; }")

SrcAssignEquals == Chars("fn main(){x=a=b;}")

\* The sources  fn main(){x=a+b*c;}  for every sequence of up to MaxOps of
\* the six binary operator signs between the operands a, b, c, ...
MaxOps == 3
OperatorSigns == {"+", "-", "*", "/", "<", ">"}
OperatorSeqs == UNION {[1..n -> OperatorSigns] : n \in 1..MaxOps}
Operand(j) == << "a", "b", "c", "d", "e", "f", "g", "h" >>[j]

RECURSIVE ExprChars(_, _)
ExprChars(ops, j) ==
    IF j > Len(ops) THEN << Operand(j) >>
    ELSE << Operand(j), ops[j] >> \o ExprChars(ops, j + 1)

ExprSource(ops) == Chars("fn main(){x=") \o ExprChars(ops, 1) \o Chars(";}")
ExprSources == {ExprSource(ops) : ops \in OperatorSeqs}

Sources ==
    {SrcWhile, SrcAssign, SrcAdd, SrcIfFalse, SrcNull, SrcObject, SrcInvalidChar,
     SrcNonAscii, SrcUnterminated, SrcStruct, SrcMissingBrace, SrcEmpty, SrcLoneQuote,
     SrcLongNumber, SrcReturnNull, SrcAssignEquals} \cup ExprSources

\* main.rs, lines 47-49: the declarations go to Interpreter::interpret
NewInterpreter ==
    /\ lex = "parsed"
    /\ parsed.st = "ok"
    /\ lex' = "done"
    /\ decls' = parsed.val
    /\ UNCHANGED << cmd_args, funcs, scope, ctl, ret, phase, err, heap, out, diag >>
    /\ UNCHANGED << source, position, tokens, parsed >>

\* main.rs, line 30: Lexer::new(source)
FrontInit ==
    /\ source \in Sources
    /\ position = 0
    /\ tokens = << >>
    /\ lex = "scanning"
    /\ parsed = NoParse
    /\ decls = << >>
    /\ cmd_args = << >>
    /\ funcs = << >>
    /\ scope = << >>
    /\ ctl = << >>
    /\ ret = NoRet
    /\ phase = "off"
    /\ err = NoErr
    /\ heap = << >>
    /\ out = << >>
    /\ diag = NoDiag

FrontNext ==
    \/ ScanNumber
    \/ ScanIdentifier
    \/ SkipWhitespace
    \/ ScanSymbol
    \/ ScanString
    \/ InvalidChar
    \/ CurrentPanics
    \/ ScanEnd
    \/ Parse
    \/ ReportParseErr
    \/ NewInterpreter

FrontSpec == FrontInit /\ [][FrontNext]_vars

\* The front end has finished with the source, one way or another.
FrontEnded == lex \in {"parsed", "done", "panicked"}

\* C10 (as claimed): the front end accepts the while statement.  When it has
\* finished with the source
\*   fn main(){ let i = 0; while i < 3 { print(i); i = i + 1; } }
\* the lexer has classified the word while as a keyword and the parser has
\* returned, without a failure, main with the while statement made of the
\* condition i < 3 and the body.
C10_WhileAccepted ==
    (source = SrcWhile /\ FrontEnded) =>
        /\ \E j \in DOMAIN tokens :
              tokens[j].text = Chars("while") /\ tokens[j].kind # "Identifer"
        /\ parsed.st = "ok"
        /\ parsed.val = ProgWhile

\* C20: every parse that does not succeed ends with one of the two
\* structured failures, unexpected end of input or expected X found Y, and
\* returns no declarations, whatever tokens the lexer produced: also for a
\* top-level token other than fn, for a number literal too long for the
\* integer type and for a lone double-quote.  The parser never aborts in any
\* other way.
C20_ParseFailuresStructured ==
    parsed.st \notin {"none", "ok"} =>
        /\ parsed.st = "err"
        /\ parsed.e.kind \in {"EndOfFile", "ExpectedToken"}
        /\ parsed.val = << >>

\* The lexer has returned the tokens of the source.
Lexed == lex \in {"scanned", "parsed", "done"} \/ (lex = "panicked" /\ parsed.st # "none")

\* C21: a null token where a primary expression starts parses to the null
\* literal and is consumed like every other literal: every successful parse
\* of a primary expression ends at a later token than it started at.  So
\*   fn main(){ let x = null; }   and   fn main(){ return null; }
\* parse to main with the declaration of x as null and with the return of
\* null, and the return; of SrcObject parses to a return of the null literal.
C21_NullLiteralConsumed ==
    /\ Lexed =>
          \A pos \in 0..(Len(tokens) - 1) :
             parse_primary_expr(tokens, pos).st = "ok" =>
                parse_primary_expr(tokens, pos).pos > pos
    /\ (source = SrcNull /\ FrontEnded) =>
          /\ parsed.st = "ok"
          /\ parsed.val = << Main(<< DeclStmt("x", NullLiteral) >>) >>
    /\ (source = SrcReturnNull /\ FrontEnded) =>
          /\ parsed.st = "ok"
          /\ parsed.val = << Main(<< ReturnStmt(NullLiteral) >>) >>
    /\ (source = SrcObject /\ FrontEnded) =>
          /\ parsed.st = "ok"
          /\ parsed.val[1].body[2] = ReturnStmt(NullLiteral)

\* The precedence of a binary operator sign, and the operator it denotes.
SignPrec(sign) ==
    CASE sign \in {"*", "/"} -> 3
      [] sign \in {"+", "-"} -> 2
      [] OTHER -> 1

SignOperator(sign) ==
    CASE sign = "+" -> "Plus"
      [] sign = "-" -> "Minus"
      [] sign = "*" -> "Star"
      [] sign = "/" -> "Slash"
      [] sign = "<" -> "LessThan"
      [] OTHER -> "GreaterThan"

\* The tree of operands lo..hi joined by the signs ops[lo..hi-1]: its root is
\* the last of the signs of least precedence, which is what binding tighter
\* and associating to the left mean.
RECURSIVE Tree(_, _, _)
Tree(ops, lo, hi) ==
    IF lo = hi THEN Identfier(Operand(lo))
    ELSE LET root == CHOOSE k \in lo..(hi - 1) :
                        \A j \in lo..(hi - 1) :
                           \/ SignPrec(ops[j]) > SignPrec(ops[k])
                           \/ SignPrec(ops[j]) = SignPrec(ops[k]) /\ j <= k
         IN  Binary(SignOperator(ops[root]), Tree(ops, lo, root), Tree(ops, root + 1, hi))

\* In the tokens of ExprSource(ops) the expression starts after the tokens
\* fn main ( ) { x =
ExprStart == Len(<< "fn", "main", "(", ")", "{", "x", "=" >>)

\* The signs of the source when it is one of ExprSources: the characters
\* between the operands, which start after  fn main(){x=
SourceOps == [j \in 1..((Len(source) - 15) \div 2) |-> source[12 + 2 * j]]

IsExprSource ==
    /\ Len(source) >= 17
    /\ \A j \in DOMAIN SourceOps : SourceOps[j] \in OperatorSigns
    /\ source = ExprSource(SourceOps)

\* C23: for every sequence of operands separated by binary operators, the
\* parser builds the tree in which * and / bind tighter than + and -, these
\* tighter than < and >, and operators of equal precedence associate to the
\* left: a - b - c is (a - b) - c and a + b * c is a + (b * c).  The token
\* after the expression, which maps to no operator, ends the expression and
\* is not consumed: the semicolon of the sources, and the = of x = a = b,
\* which the statement then rejects.
C23_PrecedenceAndAssociativity ==
    /\ (IsExprSource /\ parsed.st # "none") =>
          /\ parse_expr(tokens, ExprStart) =
                Parsed(ExprStart + 2 * Len(SourceOps) + 1,
                       Tree(SourceOps, 1, Len(SourceOps) + 1))
          /\ tokens[ExprStart + 2 * Len(SourceOps) + 2].kind = "Semicolon"
          /\ parsed.st = "ok"
          /\ parsed.val =
                << Main(<< AssignStmt("x", Tree(SourceOps, 1, Len(SourceOps) + 1)) >>) >>
    /\ (source = SrcAssignEquals /\ parsed.st # "none") =>
          /\ parse_expr(tokens, ExprStart) = Parsed(ExprStart + 1, Identfier("a"))
          /\ parsed = ParseErr(ExpectedToken("Semicolon", "Equals"))

\* The parser has returned the tree of a source that mixes the three
\* precedences, a < b - c * d: a < (b - (c * d)).
C23_Witness ==
    /\ source = ExprSource(<< "<", "-", "*" >>)
    /\ IsExprSource
    /\ parsed.st = "ok"
    /\ parsed.val[1].body[1].val =
          Binary("LessThan", Identfier("a"),
                 Binary("Minus", Identfier("b"),
                        Binary("Star", Identfier("c"), Identfier("d"))))

\* A character scan_tokens has no branch for.
Scannable(c) ==
    \/ is_ascii_digit(c)
    \/ is_ascii_alphabetic(c)
    \/ c = "_"
    \/ is_ascii_whitespace(c)
    \/ c \in DOMAIN symbols
    \/ c = "\""

\* The lexer has aborted: the parser was never called.
LexerAborted == lex = "panicked" /\ parsed.st = "none"

\* C24: scan_tokens ends on every finite source.  Every iteration of its
\* loop moves the cursor forward.  The run either aborts, at a character
\* that is no digit, letter, underscore, ASCII whitespace, symbol of the
\* table or double-quote, or returns the tokens, of which the last one and
\* no other is the end-of-input sentinel and none stands for whitespace.
C24_ScanTokensEnds ==
    /\ [][ Scanning => (lex' = "scanning" => position' > position) ]_vars
    /\ [](LexerAborted =>
            /\ position < Len(source)
            /\ ~Scannable(source[position + 1]))
    /\ [](lex = "scanned" =>
            /\ tokens # << >>
            /\ tokens[Len(tokens)].kind = "EndOfFile"
            /\ \A j \in 1..(Len(tokens) - 1) :
                  /\ tokens[j].kind # "EndOfFile"
                  /\ tokens[j].text # << >>
                  /\ ~is_ascii_whitespace(tokens[j].text[1]))

====
